---------------------------- MODULE Spec2Model ----------------------------
(***************************************************************************)
(* Verification model of the Overstand instrument-neck geometry generator  *)
(* (pzfreo/overstand): the geometry engine, the generator entry point, the *)
(* SVG exporter and the dimension builders.                                *)
(*                                                                         *)
(* Numbers.  The program computes in binary floating point.  The model     *)
(* computes in fixed point: a length is an integer number of units, with   *)
(* LenScale units to the millimetre; sines and cosines are integers scaled *)
(* by TrigScale; an angle in degrees is a whole number of degrees and an   *)
(* angle in radians a whole number of milliradians.  Square roots are      *)
(* integer square roots (rounded down) and trigonometric functions are     *)
(* read from a one-degree sine table.                                      *)
(*                                                                         *)
(* Each component has its own specification (SpecSagitta, SpecGuitar, ...) *)
(* over the shared variables; the variables of the other components stay   *)
(* at their idle values.                                                   *)
(***************************************************************************)
EXTENDS Integers, Sequences, FiniteSets, TLC

-----------------------------------------------------------------------------
(* Bounds of the model *)

\* units per millimetre of the fixed-point lengths
LenScale == 10

\* largest fingerboard radius (mm) tried by the sagitta specification
MaxSagRadius == 3

\* most shapes added to one exporter
MaxShapes == 2

\* largest grid coordinate (cm) of the feature lines given to the dimension builders
MaxDimCoord == 1

\* largest coordinate (mm) of the points given to the string-height computation
MaxHeightCoord == 1

-----------------------------------------------------------------------------
(* Fixed-point arithmetic *)

Abs(x) == IF x < 0 THEN -x ELSE x

Sign(x) == IF x < 0 THEN -1 ELSE IF x > 0 THEN 1 ELSE 0

Min2(a, b) == IF a <= b THEN a ELSE b

Max2(a, b) == IF a >= b THEN a ELSE b

\* a / b rounded toward zero (b # 0)
QuoT(a, b) == Sign(a) * Sign(b) * (Abs(a) \div Abs(b))

\* a / b rounded to the nearest integer (b # 0)
QuoR(a, b) == Sign(a) * Sign(b) * ((Abs(a) + (Abs(b) \div 2)) \div Abs(b))

RECURSIVE SqrtSearch(_, _, _)
SqrtSearch(n, lo, hi) ==
    IF lo >= hi THEN lo
    ELSE LET mid == (lo + hi + 1) \div 2
         IN  IF mid * mid <= n THEN SqrtSearch(n, mid, hi)
                               ELSE SqrtSearch(n, lo, mid - 1)

\* math.sqrt: the integer square root of n >= 0, rounded down
Sqrt(n) == SqrtSearch(n, 0, Min2(n, 46340))

-----------------------------------------------------------------------------
(* Trigonometry of the math module.  Radians are milliradians, degrees are *)
(* whole degrees, sines and cosines are scaled by TrigScale.               *)

\* sin(d degrees) * 10000 for d = 0 .. 90
SinTab ==
    << 0, 175, 349, 523, 698, 872, 1045, 1219, 1392, 1564,
       1736, 1908, 2079, 2250, 2419, 2588, 2756, 2924, 3090, 3256,
       3420, 3584, 3746, 3907, 4067, 4226, 4384, 4540, 4695, 4848,
       5000, 5150, 5299, 5446, 5592, 5736, 5878, 6018, 6157, 6293,
       6428, 6561, 6691, 6820, 6947, 7071, 7193, 7314, 7431, 7547,
       7660, 7771, 7880, 7986, 8090, 8192, 8290, 8387, 8480, 8572,
       8660, 8746, 8829, 8910, 8988, 9063, 9135, 9205, 9272, 9336,
       9397, 9455, 9511, 9563, 9613, 9659, 9703, 9744, 9781, 9816,
       9848, 9877, 9903, 9925, 9945, 9962, 9976, 9986, 9994, 9998,
       10000 >>

TrigScale == SinTab[91]

\* math.pi, in hundred-thousandths
PiE5 == 314159

\* radians * 180 / math.pi
Degrees(mrad) == QuoR(mrad * 18000, PiE5)

\* degrees * math.pi / 180
Radians(deg) == QuoR(deg * PiE5, 18000)

SinDeg(d) ==
    LET m == d % 360
    IN  IF m <= 90 THEN SinTab[m + 1]
        ELSE IF m <= 180 THEN SinTab[180 - m + 1]
        ELSE IF m <= 270 THEN -SinTab[m - 180 + 1]
        ELSE -SinTab[360 - m + 1]

CosDeg(d) == SinDeg(d + 90)

\* the largest d in lo .. hi with tan(d) <= a / b, for a >= 0, b > 0
RECURSIVE AtanSearch(_, _, _, _)
AtanSearch(a, b, lo, hi) ==
    IF lo >= hi THEN lo
    ELSE LET mid == (lo + hi + 1) \div 2
         IN  IF SinDeg(mid) * b <= CosDeg(mid) * a
             THEN AtanSearch(a, b, mid, hi)
             ELSE AtanSearch(a, b, lo, mid - 1)

\* atan(y / x) in degrees, x # 0, rounded toward zero
AtanDeg(y, x) == Sign(y) * Sign(x) * AtanSearch(Abs(y), Abs(x), 0, 89)

\* the largest d in lo .. hi with sin(d) <= a / b, for 0 <= a <= b, b > 0
RECURSIVE AsinSearch(_, _, _, _)
AsinSearch(a, b, lo, hi) ==
    IF lo >= hi THEN lo
    ELSE LET mid == (lo + hi + 1) \div 2
         IN  IF SinDeg(mid) * b <= TrigScale * a
             THEN AsinSearch(a, b, mid, hi)
             ELSE AsinSearch(a, b, lo, mid - 1)

\* asin(y / x) in degrees, x # 0 and |y| <= |x|, rounded toward zero
AsinDeg(y, x) == Sign(y) * Sign(x) * AsinSearch(Abs(y), Abs(x), 0, 90)

\* atan2(y, x) in degrees, in -180 .. 180; atan2(0, 0) is 0
Atan2Deg(y, x) ==
    IF x > 0 THEN AtanDeg(y, x)
    ELSE IF x = 0 THEN 90 * Sign(y)
    ELSE IF y >= 0 THEN 180 + AtanDeg(y, x)
    ELSE AtanDeg(y, x) - 180

\* math.sin, math.cos of milliradians (scaled by TrigScale); math.atan,
\* math.asin of a quotient and math.atan2, in milliradians
math_sin(mrad) == SinDeg(Degrees(mrad))

math_cos(mrad) == CosDeg(Degrees(mrad))

math_atan(y, x) == Radians(AtanDeg(y, x))

math_asin(y, x) == Radians(AsinDeg(y, x))

math_atan2(y, x) == Radians(Atan2Deg(y, x))

\* length * (a sine or cosine)
Scaled(length, trig) == QuoR(length * trig, TrigScale)

-----------------------------------------------------------------------------
(* geometry_engine.calculate_sagitta *)

\* a slip in the constant of the parabolic approximation
calculate_sagitta_wrong_constant(radius, width) ==
    LET half_width == width \div 2
    IN  IF half_width >= radius
        THEN (width * width) \div (4 * radius)
        ELSE radius - Sqrt(radius * radius - half_width * half_width)

calculate_sagitta_unguarded(radius, width) ==
    LET half_width == width \div 2
    IN  IF half_width >= radius
        THEN (width * width) \div (8 * radius)
        ELSE radius - Sqrt(radius * radius - half_width * half_width)

calculate_sagitta(radius, width) ==
    IF radius <= 0 \/ width <= 0
    THEN 0
    ELSE calculate_sagitta_unguarded(radius, width)

-----------------------------------------------------------------------------
(* geometry_engine.evaluate_cubic_bezier and find_bezier_t_for_y.  The      *)
(* parameter t is held to BezierBits binary places: t = 1 is TScale.        *)

BezierBits == 10

TScale == 2 ^ BezierBits

\* range(50): the number of passes of the bisection loop
BezierIterations == 50

\* one coordinate of the curve at t
BezierCoordinate(c0, c1, c2, c3, t) ==
    LET mt == TScale - t
        mt2 == QuoR(mt * mt, TScale)
        mt3 == QuoR(mt2 * mt, TScale)
        t2 == QuoR(t * t, TScale)
        t3 == QuoR(t2 * t, TScale)
    IN  QuoR(mt3 * c0 + 3 * QuoR(mt2 * t, TScale) * c1
                + 3 * QuoR(mt * t2, TScale) * c2 + t3 * c3,
             TScale)

evaluate_cubic_bezier(p0, cp1, cp2, p3, t) ==
    << BezierCoordinate(p0[1], cp1[1], cp2[1], p3[1], t),
       BezierCoordinate(p0[2], cp1[2], cp2[2], p3[2], t) >>

\* a step that overshoots the upper end of the interval
BezierMidpointPastHigh(t_low, t_high) == t_high + 1

\* (t_low + t_high) / 2
BezierMidpoint(t_low, t_high) == (t_low + t_high) \div 2

-----------------------------------------------------------------------------
(* parameter_registry.PARAMETER_REGISTRY: the parameters that have an      *)
(* input configuration, in registry order.  ptype is the ParameterType,    *)
(* min_val and max_val the InputConfig range: lengths in units, counts and *)
(* degrees as they are.                                                    *)

RegLen(k, lo, hi) ==
    [key |-> k, ptype |-> "NUMERIC", min_val |-> lo * LenScale, max_val |-> hi * LenScale]

RegNum(k, lo, hi) ==
    [key |-> k, ptype |-> "NUMERIC", min_val |-> lo, max_val |-> hi]

RegOther(k, t) ==
    [key |-> k, ptype |-> t, min_val |-> 0, max_val |-> 0]

PARAMETER_REGISTRY ==
    << RegOther("instrument_family", "ENUM"),
       RegLen("vsl", 10, 1000),
       RegLen("body_stop", 10, 500),
       RegLen("neck_stop", 10, 500),
       RegOther("instrument_name", "STRING"),
       RegNum("fret_join", 1, 24),
       RegNum("no_frets", 0, 30),
       RegLen("body_length", 10, 1000),
       RegLen("rib_height", 10, 500),
       RegLen("fingerboard_length", 20, 1000),
       RegLen("arching_height", 0, 100),
       RegLen("belly_edge_thickness", 0, 10),
       RegLen("bridge_height", 0, 100),
       RegLen("overstand", 0, 100),
       RegLen("fingerboard_radius", 20, 1000),
       RegLen("fb_visible_height_at_nut", 0, 100),
       RegLen("fb_visible_height_at_join", 0, 100),
       RegLen("string_height_nut", 0, 10),
       RegLen("string_height_eof", 0, 10),
       RegLen("string_height_12th_fret", 0, 10),
       RegLen("fingerboard_width_at_nut", 10, 100),
       RegLen("fingerboard_width_at_end", 10, 100),
       RegOther("show_measurements", "BOOLEAN"),
       RegNum("break_angle", 0, 45),
       RegLen("top_block_height", 10, 150) >>

-----------------------------------------------------------------------------
(* JSON values, as json.loads returns them: None, a number, a str, a list  *)
(* of str, or a dict from keys to values.                                  *)

NoMembers == [k \in {} |-> 0]

JNull == [form |-> "null", num |-> 0, text |-> "", items |-> <<>>, members |-> NoMembers]

JNum(n) == [form |-> "number", num |-> n, text |-> "", items |-> <<>>, members |-> NoMembers]

JStr(s) == [form |-> "string", num |-> 0, text |-> s, items |-> <<>>, members |-> NoMembers]

JArr(a) == [form |-> "array", num |-> 0, text |-> "", items |-> a, members |-> NoMembers]

JObj(m) == [form |-> "object", num |-> 0, text |-> "", items |-> <<>>, members |-> m]

\* Python's `key in params` and `key not in params`; a TypeError for None and
\* numbers.  For a str it is the substring test: the strings of the model
\* either are a key or contain none.
HasKey(params, key) ==
    CASE params.form = "object" -> key \in DOMAIN params.members
      [] params.form = "array"  -> \E i \in 1 .. Len(params.items) : params.items[i] = key
      [] params.form = "string" -> params.text = key
      [] OTHER -> FALSE

IsContainer(params) == params.form \in {"object", "array", "string"}

-----------------------------------------------------------------------------
(* Exceptions: the classes the code can raise, and Python's class tree.    *)

ExcParent(c) ==
    CASE c = "JSONDecodeError"   -> "ValueError"
      [] c = "ZeroDivisionError" -> "ArithmeticError"
      [] c = "IndexError"        -> "LookupError"
      [] c = "KeyError"          -> "LookupError"
      [] c = "Exception"         -> "BaseException"
      [] c = "BaseException"     -> "BaseException"
      [] OTHER                   -> "Exception"

RECURSIVE IsSubclass(_, _)
IsSubclass(c, d) ==
    IF c = d THEN TRUE
    ELSE IF c = "BaseException" THEN FALSE
    ELSE IsSubclass(ExcParent(c), d)

\* what a step of a function body comes to: a value, or an exception raised
Value(v) == [exc |-> "none", val |-> v]

Raise(e) == [exc |-> e, val |-> 0]

-----------------------------------------------------------------------------
(* parameter_registry.validate_parameters *)

\* the comparisons `value < min_val`, `value > max_val` need a number
Comparable(value) == value.form = "number"

RECURSIVE ValidateFrom(_, _, _)
ValidateFrom(params, i, errors) ==
    IF i > Len(PARAMETER_REGISTRY)
    THEN Value([is_valid |-> Len(errors) = 0, errors |-> errors])
    ELSE LET param == PARAMETER_REGISTRY[i]
         IN  IF ~IsContainer(params) THEN Raise("TypeError")
             ELSE IF ~HasKey(params, param.key)
                  THEN ValidateFrom(params, i + 1, errors)
             ELSE IF params.form # "object" THEN Raise("TypeError")
             ELSE IF param.ptype # "NUMERIC"
                  THEN ValidateFrom(params, i + 1, errors)
             ELSE LET value == params.members[param.key]
                      low == IF value.num < param.min_val
                             THEN << <<param.key, "must be at least", param.min_val>> >>
                             ELSE << >>
                      high == IF value.num > param.max_val
                              THEN << <<param.key, "must be at most", param.max_val>> >>
                              ELSE << >>
                  IN  IF ~Comparable(value) THEN Raise("TypeError")
                      ELSE ValidateFrom(params, i + 1, errors \o low \o high)

validate_parameters(params) == ValidateFrom(params, 1, << >>)

-----------------------------------------------------------------------------
(* Parameter roles (parameter_registry.py).  ParameterRole is the string of *)
(* the enum member; is_output_for is the dict family name -> bool, and the  *)
(* empty function stands for None (an absent dict and an empty one answer   *)
(* every lookup alike).                                                     *)

InstrumentFamily == {"VIOLIN", "VIOL", "GUITAR_MANDOLIN"}

\* the role and is_output_for of the registry entries the roles are asked of
PARAMETER_ROLES ==
    [vsl |-> [role |-> "INPUT_ONLY", is_output_for |-> NoMembers],
     body_stop |->
        [role |-> "CONDITIONAL",
         is_output_for |-> [VIOLIN |-> FALSE, VIOL |-> FALSE, GUITAR_MANDOLIN |-> TRUE]],
     neck_stop |->
        [role |-> "CONDITIONAL",
         is_output_for |-> [VIOLIN |-> TRUE, VIOL |-> TRUE, GUITAR_MANDOLIN |-> TRUE]],
     neck_angle |-> [role |-> "OUTPUT_ONLY", is_output_for |-> NoMembers],
     fret_join |-> [role |-> "INPUT_ONLY", is_output_for |-> NoMembers],
     string_length |-> [role |-> "OUTPUT_ONLY", is_output_for |-> NoMembers]]

\* dict.get(instrument_family, False)
OutputFor(param, instrument_family) ==
    IF instrument_family \in DOMAIN param.is_output_for
    THEN param.is_output_for[instrument_family]
    ELSE FALSE

\* is_input_in_mode with the negation of the lookup left out
is_input_in_mode_unnegated(param, instrument_family) ==
    IF param.role = "INPUT_ONLY" THEN TRUE
    ELSE IF param.role = "OUTPUT_ONLY" THEN FALSE
    ELSE IF param.is_output_for = NoMembers THEN TRUE
    ELSE OutputFor(param, instrument_family)

is_input_in_mode(param, instrument_family) ==
    IF param.role = "INPUT_ONLY" THEN TRUE
    ELSE IF param.role = "OUTPUT_ONLY" THEN FALSE
    ELSE IF param.is_output_for = NoMembers THEN TRUE
    ELSE ~OutputFor(param, instrument_family)

is_output_in_mode(param, instrument_family) ==
    IF param.role = "OUTPUT_ONLY" THEN TRUE
    ELSE IF param.role = "INPUT_ONLY" THEN FALSE
    ELSE IF param.is_output_for = NoMembers THEN FALSE
    ELSE OutputFor(param, instrument_family)

-----------------------------------------------------------------------------
(* instrument_generator.generate_violin_neck *)

\* json.loads of a text: a text is modelled by whether it is well-formed JSON
\* and, if so, the value it denotes
json_loads(doc) ==
    IF doc.wellformed THEN Value(doc.value) ELSE Raise("JSONDecodeError")

\* a slip in the flag of the validation failure
InvalidParametersResultFlagged(errors) ==
    [success |-> TRUE, views |-> "null", errors |-> errors]

InvalidParametersResult(errors) ==
    [success |-> FALSE, views |-> "null", errors |-> errors]

GeometryFailedResult(e) ==
    [success |-> FALSE, views |-> "null",
     errors |-> << <<"Geometry generation failed", e>> >>]

InvalidJsonResult(e) ==
    [success |-> FALSE, views |-> "null",
     errors |-> << <<"Invalid parameter JSON", e>> >>]

UnexpectedErrorResult(e) ==
    [success |-> FALSE, views |-> "null",
     errors |-> << <<"Unexpected error", e>> >>]

SuccessResult ==
    [success |-> TRUE, views |-> "views", fret_positions |-> "fret_positions",
     derived_values |-> "derived_values", derived_formatted |-> "formatted_values",
     derived_metadata |-> "metadata_dict", errors |-> << >>]

\* `except Exception` of the inner and of the outer try
InnerCatches(e) == IsSubclass(e, "Exception")

OuterCatchesJson(e) == IsSubclass(e, "JSONDecodeError")

\* a generic handler narrowed to `except ValueError`
OuterCatchesValueError(e) == IsSubclass(e, "ValueError")

OuterCatches(e) == IsSubclass(e, "Exception")

\* The first of the steps' outcomes that is an exception, "none" if none is.
RECURSIVE FirstRaised(_)
FirstRaised(outcomes) ==
    IF outcomes = << >> THEN "none"
    ELSE IF Head(outcomes) # "ok" THEN Head(outcomes)
    ELSE FirstRaised(Tail(outcomes))

\* Lines 58-93: the inner try.  env gives what generate_multi_view_svg,
\* generate_fret_positions_view, calculate_derived_values, the formatting
\* loop and json.dumps each come to ("ok" or the exception raised); a params
\* that is no dict has no .get, so the first of them raises AttributeError.
GenerateGeometry(params, env) ==
    LET raised == IF params.form # "object" THEN "AttributeError"
                  ELSE FirstRaised(<<env.views, env.frets, env.derived,
                                     env.format, env.dumps>>)
    IN  IF raised = "none" THEN Value(SuccessResult)
        ELSE IF InnerCatches(raised) THEN Value(GeometryFailedResult(raised))
        ELSE Raise(raised)

\* a body that generates the geometry before it looks at is_valid
GenerateBodyGeometryFirst(doc, env) ==
    LET parsed == json_loads(doc)
        checked == validate_parameters(parsed.val)
        generated == GenerateGeometry(parsed.val, env)
    IN  IF parsed.exc # "none" THEN Raise(parsed.exc)
        ELSE IF env.imports # "ok" THEN Raise(env.imports)
        ELSE IF checked.exc # "none" THEN Raise(checked.exc)
        ELSE IF generated.exc # "none" \/ ~generated.val.success THEN generated
        ELSE IF ~checked.val.is_valid
             THEN Value(InvalidParametersResult(checked.val.errors))
        ELSE generated

\* Lines 40-93: the body of the outer try
GenerateBody(doc, env) ==
    LET parsed == json_loads(doc)
        checked == validate_parameters(parsed.val)
    IN  IF parsed.exc # "none" THEN Raise(parsed.exc)
        ELSE IF env.imports # "ok" THEN Raise(env.imports)
        ELSE IF checked.exc # "none" THEN Raise(checked.exc)
        ELSE IF ~checked.val.is_valid
             THEN Value(InvalidParametersResult(checked.val.errors))
        ELSE GenerateGeometry(parsed.val, env)

generate_violin_neck(doc, env) ==
    LET body == GenerateBody(doc, env)
    IN  IF body.exc = "none" THEN body
        ELSE IF OuterCatchesJson(body.exc) THEN Value(InvalidJsonResult(body.exc))
        ELSE IF OuterCatches(body.exc) THEN Value(UnexpectedErrorResult(body.exc))
        ELSE Raise(body.exc)

-----------------------------------------------------------------------------
(* buildprimitives.ExportSVG: the layer registry, the shape list and the   *)
(* serialisation.  A colour is an (r, g, b) tuple, None is NoColor.  A     *)
(* layer registry is a function from the registered names to their styles. *)

NoColor == << >>

Paint(kind, rgb) == [kind |-> kind, rgb |-> rgb]

\* self.layers[name] = {...}
SetLayer(layers, name, fill_color, line_color, line_type) ==
    [n \in DOMAIN layers \cup {name} |->
        IF n = name
        THEN [fill_color |-> fill_color, line_color |-> line_color, line_type |-> line_type]
        ELSE layers[n]]

\* self.layers[name] = {...}: a new key goes last, a key already in the dict
\* keeps its place
KeyOrderAfterSet(layers, order, name) ==
    IF name \in DOMAIN layers THEN order ELSE Append(order, name)

\* ExportSVG._get_stroke_style
GetStrokeStyle(layers, layer_name) ==
    IF layer_name \notin DOMAIN layers
    THEN [stroke |-> Paint("black", NoColor), fill |-> Paint("none", NoColor), dash |-> ""]
    ELSE LET layer == layers[layer_name]
         IN  IF layer.line_color = NoColor
             THEN [stroke |-> Paint("none", NoColor), fill |-> Paint("none", NoColor),
                   dash |-> ""]
             ELSE [stroke |-> Paint("rgb", layer.line_color),
                   fill |-> Paint("none", NoColor),
                   dash |-> CASE layer.line_type = "DASHED" -> "5,3"
                              [] layer.line_type = "DOTTED" -> "1,2"
                              [] layer.line_type = "HIDDEN" -> "2,2"
                              [] OTHER -> ""]

\* a skip test that looks at the stroke colour the wrong way round
LayerInvisibleInverted(layers, layer_name) ==
    /\ layer_name \in DOMAIN layers
    /\ layers[layer_name].fill_color = NoColor
    /\ layers[layer_name].line_color # NoColor

\* write, lines 538-546: the layer is registered and both its colours are None
LayerInvisible(layers, layer_name) ==
    /\ layer_name \in DOMAIN layers
    /\ layers[layer_name].fill_color = NoColor
    /\ layers[layer_name].line_color = NoColor

\* write, lines 551-565: the fill of a filled polygon
PolygonFill(layers, shape, layer_name) ==
    IF shape.fill_pattern # ""
    THEN [kind |-> "url", rgb |-> NoColor]
    ELSE IF layer_name \in DOMAIN layers /\ layers[layer_name].fill_color # NoColor
         THEN Paint("rgb", layers[layer_name].fill_color)
         ELSE Paint("black", NoColor)

\* write, lines 548-577: the element of one shape that is not skipped, or
\* none for an object that is neither a path shape nor a Text
ShapeElements(layers, shape, layer_name, index) ==
    IF shape.kind \in {"Edge", "Arc", "Rectangle", "Spline", "Polygon"}
    THEN LET style == GetStrokeStyle(layers, layer_name)
             fill == IF shape.kind = "Polygon" /\ shape.filled
                     THEN PolygonFill(layers, shape, layer_name)
                     ELSE style.fill
         IN  << [tag |-> "path", shape |-> index, stroke |-> style.stroke,
                 fill |-> fill, dash |-> style.dash] >>
    ELSE IF shape.kind = "Text"
    THEN LET text_color ==
                 IF layer_name \in DOMAIN layers
                 THEN IF layers[layer_name].fill_color # NoColor
                      THEN layers[layer_name].fill_color
                      ELSE layers[layer_name].line_color
                 ELSE NoColor
         IN  << [tag |-> "text", shape |-> index, stroke |-> Paint("none", NoColor),
                 fill |-> IF text_color # NoColor THEN Paint("rgb", text_color)
                                                  ELSE Paint("black", NoColor),
                 dash |-> ""] >>
    ELSE << >>

\* write, lines 536-577: the elements of the shapes first .. last, in order
\* (the loop is split in halves to keep the nesting of long scenes shallow)
RECURSIVE WriteRange(_, _, _, _)
WriteRange(layers, shapes, first, last) ==
    IF first > last THEN << >>
    ELSE IF first = last
    THEN IF LayerInvisible(layers, shapes[first].layer)
         THEN << >>
         ELSE ShapeElements(layers, shapes[first].shape, shapes[first].layer, first)
    ELSE WriteRange(layers, shapes, first, (first + last) \div 2)
            \o WriteRange(layers, shapes, ((first + last) \div 2) + 1, last)

\* a write that groups the elements by layer: the shapes of the layer of
\* the last shape first
WriteElementsByLayer(layers, shapes) ==
    LET written == WriteRange(layers, shapes, 1, Len(shapes))
        OnLastLayer(element) == shapes[element.shape].layer = shapes[Len(shapes)].layer
        OnOtherLayer(element) == ~OnLastLayer(element)
    IN  SelectSeq(written, OnLastLayer) \o SelectSeq(written, OnOtherLayer)

\* ExportSVG.write: the elements inside the root's flipped group
WriteElements(layers, shapes) == WriteRange(layers, shapes, 1, Len(shapes))

-----------------------------------------------------------------------------
(* ExportSVG instances on a heap.  The heap is the sequence of the mutable  *)
(* objects created so far (layer dicts and shape lists); an instance holds  *)
(* the addresses of its own, so two instances share state exactly when     *)
(* their addresses coincide.                                                *)

\* a constructor in which layers and shapes are attributes of the class
ExportSVG_init_class_attributes(heap) ==
    IF heap = << >>
    THEN [heap |-> <<NoMembers, << >> >>, self |-> [layers |-> 1, shapes |-> 2, margin |-> 20 * LenScale]]
    ELSE [heap |-> heap, self |-> [layers |-> 1, shapes |-> 2, margin |-> 20 * LenScale]]

\* ExportSVG.__init__: self.layers = {} and self.shapes = [] are new objects
ExportSVG_init(heap) ==
    [heap |-> heap \o <<NoMembers, << >> >>,
     self |-> [layers |-> Len(heap) + 1, shapes |-> Len(heap) + 2, margin |-> 20 * LenScale]]

\* ExportSVG.add_layer on the heap
ExportSVG_add_layer(heap, self, name, fill_color, line_color, line_type) ==
    [heap EXCEPT ![self.layers] = SetLayer(@, name, fill_color, line_color, line_type)]

\* ExportSVG.add_shape on the heap
ExportSVG_add_shape(heap, self, shape, layer) ==
    [heap EXCEPT ![self.shapes] = Append(@, [shape |-> shape, layer |-> layer])]

\* ExportSVG.write on the heap
ExportSVG_write(heap, self) == WriteElements(heap[self.layers], heap[self.shapes])

-----------------------------------------------------------------------------
(* Shape objects (buildprimitives.py).  Shapes live on a heap, the sequence *)
(* of the objects constructed so far; a method takes the heap and the      *)
(* address of self and returns the heap after the call and the address it  *)
(* returns.  A location is the pair <<x, y>> of Location.x and Location.y. *)

\* Rectangle.__init__
Rectangle_init(width, height) ==
    [kind |-> "Rectangle", width |-> width, height |-> height, x |-> 0, y |-> 0]

\* Polygon.__init__ given a list of points
Polygon_init(points, filled, fill_pattern) ==
    [kind |-> "Polygon", vertices |-> points, x |-> 0, y |-> 0,
     filled |-> filled, fill_pattern |-> fill_pattern]

\* Text.__init__
Text_init(text, font_size, font) ==
    [kind |-> "Text", text |-> text, font_size |-> font_size, font |-> font,
     x |-> 0, y |-> 0, rotation |-> 0, rotation_center |-> <<0, 0>>]

\* the object constructed last is the one returned
Returned(heap, object) == [heap |-> Append(heap, object), ret |-> Len(heap) + 1]

\* a move that assigns x and y on self and returns self
Rectangle_move_in_place(heap, self, location) ==
    [heap |-> [heap EXCEPT ![self].x = location[1], ![self].y = location[2]],
     ret |-> self]

\* Rectangle.move
Rectangle_move(heap, self, location) ==
    Returned(heap, [Rectangle_init(heap[self].width, heap[self].height)
                        EXCEPT !.x = location[1], !.y = location[2]])

\* Polygon.move
Polygon_move(heap, self, location) ==
    Returned(heap, [Polygon_init(heap[self].vertices, heap[self].filled, heap[self].fill_pattern)
                        EXCEPT !.x = location[1], !.y = location[2]])

\* Text.move
Text_move(heap, self, location) ==
    Returned(heap, [Text_init(heap[self].text, heap[self].font_size, heap[self].font)
                        EXCEPT !.x = location[1], !.y = location[2],
                               !.rotation = heap[self].rotation,
                               !.rotation_center = heap[self].rotation_center])

\* Text.rotate: axis is Axis.position
Text_rotate(heap, self, axis, angle) ==
    Returned(heap, [Text_init(heap[self].text, heap[self].font_size, heap[self].font)
                        EXCEPT !.x = heap[self].x, !.y = heap[self].y,
                               !.rotation = angle,
                               !.rotation_center = <<axis[1], axis[2]>>])

\* shape.move(location) by the class of the shape
Move(heap, self, location) ==
    CASE heap[self].kind = "Rectangle" -> Rectangle_move(heap, self, location)
      [] heap[self].kind = "Polygon" -> Polygon_move(heap, self, location)
      [] heap[self].kind = "Text" -> Text_move(heap, self, location)

\* Polygon(*args) for args a sequence of points: the points bind to the
\* parameters points, filled and fill_pattern in turn, and a call with no
\* point or with more than three raises TypeError.  points is then one point,
\* a tuple whose first entry is a number, so the test of line 242 fails and
\* line 246 stores the point itself as vertices; point_list records that
\* vertices is not a list of points.
Polygon_init_varargs(args) ==
    IF Len(args) = 0 \/ Len(args) > 3
    THEN Raise("TypeError")
    ELSE Value([kind |-> "Polygon", vertices |-> args[1], point_list |-> FALSE,
                x |-> 0, y |-> 0,
                filled |-> IF Len(args) >= 2 THEN args[2] ELSE FALSE,
                fill_pattern |-> IF Len(args) >= 3 THEN args[3] ELSE ""])

\* make_face
make_face(heap, self) ==
    IF heap[self].kind = "Polygon"
    THEN LET new_shape == Polygon_init_varargs(heap[self].vertices)
         IN  IF new_shape.exc # "none"
             THEN new_shape
             ELSE Value(Returned(heap, [new_shape.val EXCEPT !.x = heap[self].x,
                                                             !.y = heap[self].y,
                                                             !.filled = TRUE]))
    ELSE Value([heap |-> heap, ret |-> self])

-----------------------------------------------------------------------------
(* ExportSVG._calculate_bounds.  An Arc holds its angles as whole degrees,  *)
(* the degree count standing for the radian value, so that a quarter turn  *)
(* and a full turn are exact as they are for math.pi / 2 and 2 * math.pi.  *)

\* Arc.make_arc
Arc_make_arc(center, radius, start_angle, end_angle) ==
    [kind |-> "Arc", center |-> center, radius |-> radius,
     start_angle |-> start_angle, end_angle |-> end_angle]

\* Spline(*points) and Spline.cubic_bezier
Spline_init(points, is_cubic) == [kind |-> "Spline", points |-> points, is_cubic |-> is_cubic]

Half(v) == QuoR(v, 2)

\* 2 * math.pi, in degrees
FullTurn == 360

\* center + radius * (cos(angle), sin(angle))
ArcPosition(shape, angle) ==
    <<shape.center[1] + Scaled(shape.radius, CosDeg(angle)),
      shape.center[2] + Scaled(shape.radius, SinDeg(angle))>>

\* lines 470-484: the critical angle is within the normalized arc range
ArcCrosses(shape, critical_angle) ==
    LET start == shape.start_angle % FullTurn
        end == shape.end_angle % FullTurn
        crit == critical_angle % FullTurn
    IN  IF start <= end
        THEN start <= crit /\ crit <= end
        ELSE crit >= start \/ crit <= end

\* lines 463-484: the points list of an Arc
ArcBoundPoints(shape) ==
    {ArcPosition(shape, shape.start_angle), ArcPosition(shape, shape.end_angle)}
        \cup {ArcPosition(shape, critical_angle) :
                critical_angle \in {c \in {0, 90, 180, 270} : ArcCrosses(shape, c)}}

\* lines 435-447: the point of a cubic Bezier curve at t = tenth / 10
CubicSample(points, tenth, axis) ==
    LET mt == 10 - tenth
    IN  QuoR(mt * mt * mt * points[1][axis] + 3 * mt * mt * tenth * points[2][axis]
                + 3 * mt * tenth * tenth * points[3][axis]
                + tenth * tenth * tenth * points[4][axis], 1000)

\* the points whose coordinates enter min_x, min_y, max_x and max_y for a shape
BoundPoints(shape) ==
    CASE shape.kind = "Edge" -> {shape.p1, shape.p2}
      [] shape.kind = "Rectangle" ->
            {<<shape.x - Half(shape.width), shape.y - Half(shape.height)>>,
             <<shape.x + Half(shape.width), shape.y + Half(shape.height)>>}
      [] shape.kind = "Spline" ->
            IF Len(shape.points) = 4 /\ shape.is_cubic
            THEN {<<CubicSample(shape.points, t, 1), CubicSample(shape.points, t, 2)>> : t \in 0 .. 10}
            ELSE {shape.points[i] : i \in DOMAIN shape.points}
      [] shape.kind = "Polygon" ->
            {<<shape.vertices[i][1] + shape.x, shape.vertices[i][2] + shape.y>> :
                i \in DOMAIN shape.vertices}
      [] shape.kind = "Arc" -> ArcBoundPoints(shape)
      [] shape.kind = "Text" ->
            LET text_width == QuoR(Len(shape.text) * shape.font_size * 6, 10)
                text_height == shape.font_size
            IN  {<<shape.x - Half(text_width), shape.y - Half(text_height)>>,
                 <<shape.x + Half(text_width), shape.y + Half(text_height)>>}
      [] OTHER -> {}

SetMin(s) == CHOOSE v \in s : \A w \in s : v <= w

SetMax(s) == CHOOSE v \in s : \A w \in s : v >= w

\* the bounds of the shapes on visible layers only
calculate_bounds_of_visible(self) ==
    LET points == UNION {BoundPoints(self.shapes[i].shape) :
                            i \in {j \in DOMAIN self.shapes :
                                      ~LayerInvisible(self.layers, self.shapes[j].layer)}}
    IN  IF points = {}
        THEN [finite |-> FALSE, min_x |-> 0, min_y |-> 0, max_x |-> 0, max_y |-> 0]
        ELSE [finite |-> TRUE,
              min_x |-> SetMin({p[1] : p \in points}) - self.margin,
              min_y |-> SetMin({p[2] : p \in points}) - self.margin,
              max_x |-> SetMax({p[1] : p \in points}) + self.margin,
              max_y |-> SetMax({p[2] : p \in points}) + self.margin]

\* ExportSVG._calculate_bounds of self = [layers, shapes, margin].  With no
\* point at all the four values stay infinite: finite is FALSE.
calculate_bounds(self) ==
    LET points == UNION {BoundPoints(self.shapes[i].shape) : i \in DOMAIN self.shapes}
    IN  IF points = {}
        THEN [finite |-> FALSE, min_x |-> 0, min_y |-> 0, max_x |-> 0, max_y |-> 0]
        ELSE [finite |-> TRUE,
              min_x |-> SetMin({p[1] : p \in points}) - self.margin,
              min_y |-> SetMin({p[2] : p \in points}) - self.margin,
              max_x |-> SetMax({p[1] : p \in points}) + self.margin,
              max_y |-> SetMax({p[2] : p \in points}) + self.margin]

-----------------------------------------------------------------------------
(* dimension_utils: the builders of dimension annotations.  A point is a   *)
(* pair <<x, y>> of lengths; a builder returns the list of (shape, layer)  *)
(* pairs, or raises.                                                       *)

\* PTS_MM is 0.352778 mm
DIMENSION_FONT_SIZE == QuoR(8 * 352778 * LenScale, 1000000)

DIMENSION_OFFSET_VERTICAL == 8 * LenScale

DIMENSION_OFFSET_HORIZONTAL == (-10) * LenScale

DIMENSION_OFFSET_DIAGONAL == 8 * LenScale

DIMENSION_EXTENSION_LENGTH == 3 * LenScale

DIMENSION_ARROW_SIZE == 3 * LenScale

\* Edge.make_line
Edge_make_line(p1, p2) ==
    [kind |-> "Edge", p1 |-> p1, p2 |-> p2, text |-> "", rotation |-> 0]

\* Text(label, ...).move(Location(position)).rotate(Axis(position, z), angle)
TextAt(label, position, angle) ==
    [kind |-> "Text", p1 |-> position, p2 |-> position, text |-> label,
     rotation |-> angle]

OnLayer(shape, layer) == [shape |-> shape, layer |-> layer]

RECURSIVE AllOnLayer(_, _)
AllOnLayer(shapes, layer) ==
    IF shapes = << >> THEN << >>
    ELSE << OnLayer(Head(shapes), layer) >> \o AllOnLayer(Tail(shapes), layer)

create_dimension_arrows(p1, p2, arrow_size) ==
    LET x1 == p1[1]
        y1 == p1[2]
        x2 == p2[1]
        y2 == p2[2]
        angle == math_atan2(y2 - y1, x2 - x1)
        arrow1_left  == << x1 + Scaled(arrow_size, math_cos(angle + 2800)),
                           y1 + Scaled(arrow_size, math_sin(angle + 2800)) >>
        arrow1_right == << x1 + Scaled(arrow_size, math_cos(angle - 2800)),
                           y1 + Scaled(arrow_size, math_sin(angle - 2800)) >>
        arrow2_left  == << x2 - Scaled(arrow_size, math_cos(angle + 2800)),
                           y2 - Scaled(arrow_size, math_sin(angle + 2800)) >>
        arrow2_right == << x2 - Scaled(arrow_size, math_cos(angle - 2800)),
                           y2 - Scaled(arrow_size, math_sin(angle - 2800)) >>
    IN  << Edge_make_line(p1, arrow1_left), Edge_make_line(p1, arrow1_right),
           Edge_make_line(p2, arrow2_left), Edge_make_line(p2, arrow2_right) >>

create_vertical_dimension(feature_line, label, offset_x, extension_length, font_size, arrow_size) ==
    LET x == feature_line.p1[1]
        y_start == feature_line.p1[2]
        y_end == feature_line.p2[2]
        ext_x == x + offset_x
        ext1 == Edge_make_line(<<x, y_start>>, <<ext_x + extension_length, y_start>>)
        ext2 == Edge_make_line(<<x, y_end>>, <<ext_x + extension_length, y_end>>)
        dim_p1 == <<ext_x, y_start>>
        dim_p2 == <<ext_x, y_end>>
        text == TextAt(label, <<ext_x + font_size, QuoR(y_start + y_end, 2)>>, 0)
    IN  Value( << OnLayer(ext1, "extensions"), OnLayer(ext2, "extensions"),
                  OnLayer(Edge_make_line(dim_p1, dim_p2), "dimensions") >>
               \o AllOnLayer(create_dimension_arrows(dim_p1, dim_p2, arrow_size), "arrows")
               \o << OnLayer(text, "extensions") >> )

\* lines 153-159: the unit perpendicular (scaled by TrigScale), 90 degrees
\* counterclockwise of (dx, dy); the division raises for a zero length
DiagonalPerpendicular(dx, dy) ==
    LET length == Sqrt(dx * dx + dy * dy)
    IN  IF length = 0 THEN Raise("ZeroDivisionError")
        ELSE Value(<< QuoR((-dy) * TrigScale, length), QuoR(dx * TrigScale, length) >>)

\* a label that keeps the angle of the line
ReadableAngleUnflipped(angle_deg) == angle_deg

\* lines 205-208: the angle flipped by a half turn if the text would be
\* upside down
ReadableAngle(angle_deg) ==
    IF angle_deg > 90 THEN angle_deg - 180
    ELSE IF angle_deg < -90 THEN angle_deg + 180
    ELSE angle_deg

create_diagonal_dimension(feature_line, label, offset_distance, extension_length, font_size, arrow_size) ==
    LET x1 == feature_line.p1[1]
        y1 == feature_line.p1[2]
        x2 == feature_line.p2[1]
        y2 == feature_line.p2[2]
        dx == x2 - x1
        dy == y2 - y1
        perp == DiagonalPerpendicular(dx, dy)
        perp_x == perp.val[1]
        perp_y == perp.val[2]
        offset_x1 == x1 + Scaled(offset_distance, perp_x)
        offset_y1 == y1 + Scaled(offset_distance, perp_y)
        offset_x2 == x2 + Scaled(offset_distance, perp_x)
        offset_y2 == y2 + Scaled(offset_distance, perp_y)
        ext1 == Edge_make_line(<<x1, y1>>,
                    << offset_x1 + Scaled(extension_length, perp_x),
                       offset_y1 + Scaled(extension_length, perp_y) >>)
        ext2 == Edge_make_line(<<x2, y2>>,
                    << offset_x2 + Scaled(extension_length, perp_x),
                       offset_y2 + Scaled(extension_length, perp_y) >>)
        dim_p1 == <<offset_x1, offset_y1>>
        dim_p2 == <<offset_x2, offset_y2>>
        center_x == QuoR(offset_x1 + offset_x2, 2)
        center_y == QuoR(offset_y1 + offset_y2, 2)
        text_offset == QuoR(font_size, 2)
        text_x == center_x + Scaled(text_offset, perp_x)
        text_y == center_y + Scaled(text_offset, perp_y)
        angle_deg == Degrees(math_atan2(dy, dx))
        readable == ReadableAngle(angle_deg)
        text == TextAt(label, <<text_x, text_y>>, readable)
    IN  IF perp.exc # "none" THEN Raise(perp.exc)
        ELSE Value( << OnLayer(ext1, "extensions"), OnLayer(ext2, "extensions"),
                       OnLayer(Edge_make_line(dim_p1, dim_p2), "dimensions") >>
                    \o AllOnLayer(create_dimension_arrows(dim_p1, dim_p2, arrow_size),
                                  "arrows")
                    \o << OnLayer(text, "extensions") >> )

create_horizontal_dimension(feature_line, label, offset_y, extension_length, font_size, arrow_size) ==
    LET x_start == feature_line.p1[1]
        x_end == feature_line.p2[1]
        y == feature_line.p1[2]
        extensions ==
            IF extension_length > 0
            THEN << OnLayer(Edge_make_line(<<x_start, y>>,
                                <<x_start, y + offset_y + extension_length>>),
                            "extensions"),
                    OnLayer(Edge_make_line(<<x_end, y>>,
                                <<x_end, y + offset_y + extension_length>>),
                            "extensions") >>
            ELSE << >>
        dim_y == IF extension_length > 0 THEN y + offset_y ELSE y
        dim_p1 == <<x_start, dim_y>>
        dim_p2 == <<x_end, dim_y>>
        text == TextAt(label, << QuoR(x_start + x_end, 2) - 10 * LenScale,
                                 dim_y - font_size >>, 0)
    IN  Value( extensions
               \o << OnLayer(Edge_make_line(dim_p1, dim_p2), "dimensions") >>
               \o AllOnLayer(create_dimension_arrows(dim_p1, dim_p2, arrow_size), "arrows")
               \o << OnLayer(text, "extensions") >> )

\* lines 299-303: dist(p, q) < tolerance, the tolerance being 0.01 mm
Near(p, q) ==
    ((p[1] - q[1]) * (p[1] - q[1]) + (p[2] - q[2]) * (p[2] - q[2])) * 10000
        < LenScale * LenScale

\* a junction search that tests the four endpoint pairs in the opposite order
AngleJunctionLastMatch(line1, line2) ==
    IF Near(line1.p2, line2.p2)
    THEN [junction |-> line1.p2, dir1_point |-> line1.p1, dir2_point |-> line2.p1]
    ELSE IF Near(line1.p2, line2.p1)
    THEN [junction |-> line1.p2, dir1_point |-> line1.p1, dir2_point |-> line2.p2]
    ELSE IF Near(line1.p1, line2.p2)
    THEN [junction |-> line1.p1, dir1_point |-> line1.p2, dir2_point |-> line2.p1]
    ELSE IF Near(line1.p1, line2.p1)
    THEN [junction |-> line1.p1, dir1_point |-> line1.p2, dir2_point |-> line2.p2]
    ELSE [junction |-> line1.p2, dir1_point |-> line1.p1, dir2_point |-> line2.p1]

\* lines 304-325: the junction and the far point of each line
AngleJunction(line1, line2) ==
    IF Near(line1.p1, line2.p1)
    THEN [junction |-> line1.p1, dir1_point |-> line1.p2, dir2_point |-> line2.p2]
    ELSE IF Near(line1.p1, line2.p2)
    THEN [junction |-> line1.p1, dir1_point |-> line1.p2, dir2_point |-> line2.p1]
    ELSE IF Near(line1.p2, line2.p1)
    THEN [junction |-> line1.p2, dir1_point |-> line1.p1, dir2_point |-> line2.p2]
    ELSE IF Near(line1.p2, line2.p2)
    THEN [junction |-> line1.p2, dir1_point |-> line1.p1, dir2_point |-> line2.p1]
    ELSE [junction |-> line1.p2, dir1_point |-> line1.p1, dir2_point |-> line2.p1]

\* the angle between the rays without the fold onto the minor angle
AngleBetweenUnfolded(angle1, angle2) == Degrees(angle2 - angle1) % 360

\* lines 334-339: the minor angle, in degrees
AngleBetween(angle1, angle2) ==
    LET angle_deg == Degrees(angle2 - angle1) % 360
    IN  IF angle_deg > 180 THEN 360 - angle_deg ELSE angle_deg

\* f"{angle_deg:.1f}°" of a whole number of degrees
FormatAngle(angle_deg) == ToString(angle_deg) \o ".0°"

\* lines 347-365: the line from the junction through a far point, extended
\* by line_extension; nothing for a far point on the junction
ExtensionLine(junction, dir_point, line_extension) ==
    LET dx == dir_point[1] - junction[1]
        dy == dir_point[2] - junction[2]
        len == Sqrt(dx * dx + dy * dy)
    IN  IF line_extension > 0 /\ len > 0
        THEN << OnLayer(Edge_make_line(junction,
                            << dir_point[1] + QuoR(dx * line_extension, len),
                               dir_point[2] + QuoR(dy * line_extension, len) >>),
                        "extensions") >>
        ELSE << >>

\* lines 378-385: a point of the arc
ArcPoint(junction, arc_radius, start_angle, end_angle, i, num_segments) ==
    LET angle == start_angle + QuoR(i * (end_angle - start_angle), num_segments)
    IN  << junction[1] + Scaled(arc_radius, math_cos(angle)),
           junction[2] + Scaled(arc_radius, math_sin(angle)) >>

\* lines 378-390: the arc as twelve line segments
ArcSegments(junction, arc_radius, start_angle, end_angle) ==
    [i \in 1 .. 12 |->
        OnLayer(Edge_make_line(
                    ArcPoint(junction, arc_radius, start_angle, end_angle, i - 1, 12),
                    ArcPoint(junction, arc_radius, start_angle, end_angle, i, 12)),
                "dimensions")]

\* label is << >> for None and <<text>> for a supplied text
create_angle_dimension(line1, line2, label, arc_radius, font_size, line_extension) ==
    LET ends == AngleJunction(line1, line2)
        jx == ends.junction[1]
        jy == ends.junction[2]
        angle1 == math_atan2(ends.dir1_point[2] - jy, ends.dir1_point[1] - jx)
        angle2 == math_atan2(ends.dir2_point[2] - jy, ends.dir2_point[1] - jx)
        text_label == IF label = << >> THEN FormatAngle(AngleBetween(angle1, angle2))
                      ELSE label[1]
        low == Min2(angle1, angle2)
        high == Max2(angle1, angle2)
        start_angle == IF high - low > Radians(180) THEN high ELSE low
        end_angle == IF high - low > Radians(180) THEN low + Radians(360) ELSE high
        mid_angle == QuoR(start_angle + end_angle, 2)
        text_radius == arc_radius + QuoR(font_size * 3, 2)
        text_x == jx + Scaled(text_radius, math_cos(mid_angle))
        text_y == jy + Scaled(text_radius, math_sin(mid_angle))
        text_width_approx == QuoR(Len(text_label) * font_size * 6, 10)
        text == TextAt(text_label, << text_x - QuoR(text_width_approx, 2),
                                      text_y - QuoR(font_size, 2) >>, 0)
    IN  Value( ExtensionLine(ends.junction, ends.dir1_point, line_extension)
               \o ExtensionLine(ends.junction, ends.dir2_point, line_extension)
               \o ArcSegments(ends.junction, arc_radius, start_angle, end_angle)
               \o << OnLayer(text, "extensions") >> )

-----------------------------------------------------------------------------
(* svg_renderer: the exporter of the side view and its dimension           *)
(* annotations.  The builders are imported from dimension_helpers, a       *)
(* module src/ does not hold; the builders of dimension_utils stand in.    *)

\* setup_exporter: the layers of the exporter it returns
setup_exporter(show_measurements) ==
    LET dim_color == IF show_measurements THEN <<255, 0, 0>> ELSE NoColor
        text == SetLayer(NoMembers, "text", <<0, 0, 255>>, NoColor, "HIDDEN")
        drawing == SetLayer(text, "drawing", NoColor, <<0, 0, 0>>, "CONTINUOUS")
        schematic == SetLayer(drawing, "schematic", NoColor, <<0, 0, 0>>, "DASHED")
        dotted == SetLayer(schematic, "schematic_dotted", NoColor, <<100, 100, 100>>, "DOTTED")
        dimensions == SetLayer(dotted, "dimensions", dim_color, dim_color, "DASHED")
        extensions == SetLayer(dimensions, "extensions", NoColor, dim_color, "CONTINUOUS")
    IN  SetLayer(extensions, "arrows", dim_color, dim_color, "CONTINUOUS")

\* f"{v:.1f}" of a length
FormatLength(v) ==
    LET tenths == QuoR(Abs(v) * 10, LenScale)
    IN  (IF v < 0 /\ tenths > 0 THEN "-" ELSE "")
            \o ToString(tenths \div 10) \o "." \o ToString(tenths % 10)

\* for shape, layer in builder(...): exporter.add_shape(shape, layer=layer),
\* after the statements that gave added; an exception ends the function
ThenAdd(added, built) ==
    IF added.exc # "none" THEN added
    ELSE IF built.exc # "none" THEN built
    ELSE Value(added.val \o built.val)

\* the statements in order: the pairs added by all of them, or the first exception
RECURSIVE AddAll(_)
AddAll(parts) ==
    IF parts = << >> THEN Value(<< >>) ELSE ThenAdd(parts[1], AddAll(Tail(parts)))

\* a dimension line with arrows and its label on the text layer (lines
\* 229-239 and 269-280)
PlainDimension(dim_p1, dim_p2, label, text_position) ==
    Value(<<OnLayer(Edge_make_line(dim_p1, dim_p2), "dimensions")>>
            \o AllOnLayer(create_dimension_arrows(dim_p1, dim_p2, 3 * LenScale), "arrows")
            \o <<OnLayer(TextAt(label, text_position, 0), "text")>>)

\* add_dimensions: the (shape, layer) pairs it adds to the exporter, in order
add_dimensions(show_measurements, a) ==
    LET bottom_y == a.belly_edge_thickness - a.rib_height
        rib_dim_x == a.body_length + 10 * LenScale
        tailpiece_base_y == a.belly_edge_thickness
        tailpiece_top_y == a.belly_edge_thickness + a.tailpiece_height
        tailpiece_dim_x == a.body_length + 20 * LenScale
        tailpiece_to_bridge_line ==
            Edge_make_line(<<a.body_length, tailpiece_top_y>>, <<a.bridge_top_x, a.bridge_top_y>>)
        rib_to_nut ==
            IF show_measurements
            THEN create_vertical_dimension(
                     Edge_make_line(<<a.reference_line_end_x, 0>>,
                                    <<a.reference_line_end_x, a.nut_top_y>>),
                     FormatLength(a.nut_top_y), (-8) * LenScale, DIMENSION_EXTENSION_LENGTH,
                     DIMENSION_FONT_SIZE, DIMENSION_ARROW_SIZE)
            ELSE Value(<< >>)
        string_length ==
            create_diagonal_dimension(a.string_line, FormatLength(a.string_length),
                10 * LenScale, DIMENSION_EXTENSION_LENGTH, DIMENSION_FONT_SIZE,
                DIMENSION_ARROW_SIZE)
        nut_to_perp ==
            IF a.nut_to_perp_distance > 0
            THEN create_diagonal_dimension(
                     Edge_make_line(<<a.nut_top_x, a.nut_top_y>>, <<a.intersect_x, a.intersect_y>>),
                     FormatLength(a.nut_to_perp_distance), 20 * LenScale,
                     DIMENSION_EXTENSION_LENGTH, DIMENSION_FONT_SIZE, DIMENSION_ARROW_SIZE)
            ELSE Value(<< >>)
        string_height ==
            create_vertical_dimension(
                Edge_make_line(<<a.fb_surface_point_x, a.fb_surface_point_y>>,
                               <<a.string_x_at_fb_end, a.string_y_at_fb_end>>),
                FormatLength(a.string_height_at_fb_end), 8 * LenScale,
                DIMENSION_EXTENSION_LENGTH, DIMENSION_FONT_SIZE, DIMENSION_ARROW_SIZE)
        nut_distance ==
            create_horizontal_dimension(
                Edge_make_line(<<a.neck_end_x, a.neck_end_y>>, <<0, a.neck_end_y>>),
                FormatLength(Abs(a.neck_end_x)), (-10) * LenScale, 3 * LenScale,
                DIMENSION_FONT_SIZE, DIMENSION_ARROW_SIZE)
        overstand ==
            IF a.overstand > 0
            THEN create_vertical_dimension(
                     Edge_make_line(<<0, 0>>, <<0, a.overstand>>), FormatLength(a.overstand),
                     8 * LenScale, DIMENSION_EXTENSION_LENGTH, DIMENSION_FONT_SIZE,
                     DIMENSION_ARROW_SIZE)
            ELSE Value(<< >>)
        arching ==
            create_vertical_dimension(
                Edge_make_line(<<a.body_stop, 0>>, <<a.body_stop, a.arching_height>>),
                FormatLength(a.arching_height), 8 * LenScale, DIMENSION_EXTENSION_LENGTH,
                DIMENSION_FONT_SIZE, DIMENSION_ARROW_SIZE)
        body_stop ==
            create_horizontal_dimension(
                Edge_make_line(<<0, bottom_y>>, <<a.body_stop, bottom_y>>),
                FormatLength(a.body_stop), (-15) * LenScale, 3 * LenScale,
                DIMENSION_FONT_SIZE, DIMENSION_ARROW_SIZE)
        body_length ==
            create_horizontal_dimension(
                Edge_make_line(<<0, bottom_y>>, <<a.body_length, bottom_y>>),
                FormatLength(a.body_length), (-30) * LenScale, 3 * LenScale,
                DIMENSION_FONT_SIZE, DIMENSION_ARROW_SIZE)
        rib_height ==
            PlainDimension(<<rib_dim_x, a.belly_edge_thickness>>,
                           <<rib_dim_x, a.belly_edge_thickness - a.rib_height>>,
                           FormatLength(a.rib_height),
                           <<rib_dim_x + DIMENSION_FONT_SIZE,
                             a.belly_edge_thickness - Half(a.rib_height)>>)
        tailpiece_line == Value(<<OnLayer(tailpiece_to_bridge_line, "schematic_dotted")>>)
        break_angle ==
            IF a.string_break_angle > 0
            THEN create_angle_dimension(a.string_line, tailpiece_to_bridge_line,
                     <<FormatAngle(a.string_break_angle)>>, 20 * LenScale,
                     DIMENSION_FONT_SIZE, 5 * LenScale)
            ELSE Value(<< >>)
        tailpiece ==
            IF a.tailpiece_height > 0
            THEN ThenAdd(
                     Value(<<OnLayer(Edge_make_line(<<a.body_length, tailpiece_base_y>>,
                                                    <<a.body_length, tailpiece_top_y>>),
                                     "schematic_dotted")>>),
                     PlainDimension(<<tailpiece_dim_x, tailpiece_base_y>>,
                                    <<tailpiece_dim_x, tailpiece_top_y>>,
                                    FormatLength(a.tailpiece_height),
                                    <<tailpiece_dim_x + DIMENSION_FONT_SIZE,
                                      tailpiece_base_y + Half(a.tailpiece_height)>>))
            ELSE Value(<< >>)
    IN  AddAll(<<rib_to_nut, string_length, nut_to_perp, string_height, nut_distance,
                 overstand, arching, body_stop, body_length, rib_height, tailpiece_line,
                 break_angle, tailpiece>>)

-----------------------------------------------------------------------------
(* geometry_engine: the string-angle solvers, the neck geometry and the    *)
(* string height.  params is a dict from parameter names to numbers: a     *)
(* function whose domain is the set of keys present.                       *)

\* params.get(key) or default
GetOr(params, key, default) ==
    IF key \in DOMAIN params /\ params[key] # 0 THEN params[key] ELSE default

\* params.get(key, default)
GetDefault(params, key, default) ==
    IF key \in DOMAIN params THEN params[key] ELSE default

\* list[i] of Python: indices from 0, negative indices from the end
ListIndex(list, i) ==
    IF 0 <= i /\ i < Len(list) THEN Value(list[i + 1])
    ELSE IF i < 0 /\ -i <= Len(list) THEN Value(list[Len(list) + i + 1])
    ELSE Raise("IndexError")

\* 2 ** (i / 12) * 10000 for i = 0 .. 11
Pow2Tab ==
    << 10000, 10595, 11225, 11892, 12599, 13348,
       14142, 14983, 15874, 16818, 17818, 18877 >>

\* 2 ** (i / 12), scaled by Pow2Tab[1]
Pow2Twelfth(i) == Pow2Tab[(i % 12) + 1] * (2 ^ (i \div 12))

calculate_fret_positions(vsl, no_frets) ==
    [i \in 1 .. no_frets |-> vsl - QuoR(vsl * Pow2Tab[1], Pow2Twelfth(i))]

-----------------------------------------------------------------------------
(* geometry_engine.calculate_fingerboard_thickness.  The defaults are the   *)
(* constants of the constants module, with the values the parameter        *)
(* registry gives as defaults of the same parameters.                      *)

DEFAULT_FINGERBOARD_RADIUS == 41 * LenScale

DEFAULT_FB_VISIBLE_HEIGHT_AT_NUT == 4 * LenScale

DEFAULT_FB_VISIBLE_HEIGHT_AT_JOIN == 6 * LenScale

DEFAULT_FB_WIDTH_AT_NUT == 24 * LenScale

DEFAULT_FB_WIDTH_AT_END == 30 * LenScale

calculate_fingerboard_thickness(params) ==
    LET fingerboard_radius == GetOr(params, "fingerboard_radius", DEFAULT_FINGERBOARD_RADIUS)
        fb_visible_height_at_nut ==
            GetOr(params, "fb_visible_height_at_nut", DEFAULT_FB_VISIBLE_HEIGHT_AT_NUT)
        fb_visible_height_at_join ==
            GetOr(params, "fb_visible_height_at_join", DEFAULT_FB_VISIBLE_HEIGHT_AT_JOIN)
        fb_width_at_nut == GetOr(params, "fingerboard_width_at_nut", DEFAULT_FB_WIDTH_AT_NUT)
        fb_width_at_join == GetOr(params, "fingerboard_width_at_end", DEFAULT_FB_WIDTH_AT_END)
        sagitta_at_nut == calculate_sagitta(fingerboard_radius, fb_width_at_nut)
        sagitta_at_join == calculate_sagitta(fingerboard_radius, fb_width_at_join)
    IN  [sagitta_at_nut |-> sagitta_at_nut,
         sagitta_at_join |-> sagitta_at_join,
         fb_thickness_at_nut |-> fb_visible_height_at_nut + sagitta_at_nut,
         fb_thickness_at_join |-> fb_visible_height_at_join + sagitta_at_join]

-----------------------------------------------------------------------------
(* view_generator.generate_fret_positions_view.  params is a dict from keys *)
(* to JSON values: numbers, strings and null.                              *)

\* params.get(key): None for an absent key
DictGet(params, key) == IF key \in DOMAIN params THEN params[key] ELSE JNull

\* the value is falsy: None, 0 or ""
Falsy(value) ==
    \/ value.form = "null"
    \/ value.form = "number" /\ value.num = 0
    \/ value.form = "string" /\ value.text = ""

\* a fret count taken with `params.get('no_frets') or` the family's default
ResolveFretCountOr(params, instrument_family) ==
    IF ~Falsy(DictGet(params, "no_frets")) THEN DictGet(params, "no_frets").num
    ELSE IF instrument_family = "VIOL" THEN 7
    ELSE IF instrument_family = "GUITAR_MANDOLIN" THEN 20
    ELSE 0

\* lines 16-23: no_frets
ResolveFretCount(params, instrument_family) ==
    IF DictGet(params, "no_frets").form # "null" THEN DictGet(params, "no_frets").num
    ELSE IF instrument_family = "VIOL" THEN 7
    ELSE IF instrument_family = "GUITAR_MANDOLIN" THEN 20
    ELSE 0

\* lines 35-41: the rows of the table
FretRows(fret_positions) ==
    [i \in DOMAIN fret_positions |->
        [fret_num |-> i,
         from_nut |-> FormatLength(fret_positions[i]),
         from_prev |-> FormatLength(fret_positions[i]
                          - (IF i = 1 THEN 0 ELSE fret_positions[i - 1]))]]

generate_fret_positions_view(params) ==
    LET vsl == IF Falsy(DictGet(params, "vsl")) THEN 0 ELSE DictGet(params, "vsl").num
        instrument_family ==
            IF Falsy(DictGet(params, "instrument_family")) THEN "VIOLIN"
            ELSE DictGet(params, "instrument_family").text
        no_frets == ResolveFretCount(params, instrument_family)
    IN  IF no_frets = 0
        THEN [available |-> FALSE,
              message |-> "Fret positions not applicable for violin family",
              html |-> << >>, vsl |-> 0, no_frets |-> 0]
        ELSE [available |-> TRUE, message |-> "",
              html |-> FretRows(calculate_fret_positions(vsl, no_frets)),
              vsl |-> vsl, no_frets |-> no_frets]

\* lines 268-270 of the fret-join solver: the height of the bridge top over
\* the string at the join (both fret table entries exist, the second is
\* not zero)
GuitarOpposite(params, fret_positions, fb_thickness_at_join) ==
    LET fret_join == GetOr(params, "fret_join", 12)
        string_height_nut == GetOr(params, "string_height_nut", 0)
        string_height_12th_fret == GetOr(params, "string_height_12th_fret", 0)
        string_height_at_join ==
            QuoR((string_height_12th_fret - string_height_nut)
                     * ListIndex(fret_positions, fret_join).val,
                 ListIndex(fret_positions, 12).val)
            + string_height_nut
    IN  GetOr(params, "arching_height", 0) + GetOr(params, "bridge_height", 0)
            - GetOr(params, "overstand", 0) - fb_thickness_at_join
            - string_height_at_join

\* line 269
GuitarHypotenuse(params, vsl, fret_positions) ==
    vsl - ListIndex(fret_positions, GetOr(params, "fret_join", 12)).val

\* a solver that clamps the ratio into [-1, 1] before the arcsine
GuitarStringAngleClamped(opposite, hypotenuse) ==
    IF Abs(opposite) > Abs(hypotenuse)
    THEN Value(Sign(opposite) * Sign(hypotenuse) * Radians(90))
    ELSE Value(math_asin(opposite, hypotenuse))

\* lines 273-281: sin_value = opposite / hypotenuse (hypotenuse # 0), the
\* ValueError for abs(sin_value) > 1.0, the arcsine otherwise
GuitarStringAngle(opposite, hypotenuse) ==
    IF Abs(opposite) > Abs(hypotenuse)
    THEN Raise("ValueError")
    ELSE Value(math_asin(opposite, hypotenuse))

calculate_string_angles_guitar(params, vsl, fret_positions, fb_thickness_at_join) ==
    LET fret_join == GetOr(params, "fret_join", 12)
        string_height_nut == GetOr(params, "string_height_nut", 0)
        string_height_12th_fret == GetOr(params, "string_height_12th_fret", 0)
        at_join == ListIndex(fret_positions, fret_join)
        at_12 == ListIndex(fret_positions, 12)
        string_height_at_join ==
            QuoR((string_height_12th_fret - string_height_nut) * at_join.val, at_12.val)
            + string_height_nut
        hypotenuse == GuitarHypotenuse(params, vsl, fret_positions)
        opposite == GuitarOpposite(params, fret_positions, fb_thickness_at_join)
        angle == GuitarStringAngle(opposite, hypotenuse)
        string_angle_to_ribs_rad == angle.val
        string_angle_to_fb ==
            Degrees(math_atan(string_height_at_join - string_height_nut, at_join.val))
    IN  IF at_join.exc # "none" THEN Raise(at_join.exc)
        ELSE IF at_12.exc # "none" THEN Raise(at_12.exc)
        ELSE IF at_12.val = 0 THEN Raise("ZeroDivisionError")
        ELSE IF hypotenuse = 0 THEN Raise("ZeroDivisionError")
        ELSE IF angle.exc # "none" THEN Raise(angle.exc)
        ELSE IF at_join.val = 0 THEN Raise("ZeroDivisionError")
        ELSE Value([body_stop |-> Scaled(hypotenuse, math_cos(string_angle_to_ribs_rad)),
                    neck_stop |-> Scaled(at_join.val, math_cos(string_angle_to_ribs_rad)),
                    string_angle_to_ribs_rad |-> string_angle_to_ribs_rad,
                    string_angle_to_fb |-> string_angle_to_fb,
                    string_angle_to_ribs |-> Degrees(string_angle_to_ribs_rad),
                    string_angle_to_fingerboard |-> string_angle_to_fb])

calculate_string_angles_violin(params, vsl, fb_thickness_at_join) ==
    LET body_stop == GetOr(params, "body_stop", 0)
        arching_height == GetOr(params, "arching_height", 0)
        bridge_height == GetOr(params, "bridge_height", 0)
        overstand == GetOr(params, "overstand", 0)
        string_height_nut == GetOr(params, "string_height_nut", 0)
        string_height_eof == GetOr(params, "string_height_eof", 0)
        fingerboard_length == GetOr(params, "fingerboard_length", 0)
        string_height_at_join ==
            QuoR((string_height_eof - string_height_nut) * (vsl - body_stop),
                 fingerboard_length)
            + string_height_nut
        opposite == arching_height + bridge_height - overstand - fb_thickness_at_join
                        - string_height_at_join
        string_angle_to_ribs_rad == math_atan(opposite, body_stop)
        string_to_join == Sqrt(opposite * opposite + body_stop * body_stop)
        string_nut_to_join == vsl - string_to_join
        neck_stop == Scaled(string_nut_to_join, math_cos(string_angle_to_ribs_rad))
        string_angle_to_fb ==
            Degrees(math_atan(string_height_eof - string_height_nut, fingerboard_length))
    IN  IF fingerboard_length = 0 THEN Raise("ZeroDivisionError")
        ELSE IF body_stop = 0 THEN Raise("ZeroDivisionError")
        ELSE Value([body_stop |-> body_stop,
                    neck_stop |-> neck_stop,
                    string_angle_to_ribs_rad |-> string_angle_to_ribs_rad,
                    string_angle_to_fb |-> string_angle_to_fb,
                    string_angle_to_ribs |-> Degrees(string_angle_to_ribs_rad),
                    string_angle_to_fingerboard |-> string_angle_to_fb])

\* body_stop is << >> for None and <<value>> for a value
calculate_neck_geometry(params, vsl, neck_stop, string_angle_to_ribs_rad, string_angle_to_fb, fb_thickness_at_nut, fb_thickness_at_join, body_stop) ==
    LET arching_height == GetOr(params, "arching_height", 0)
        bridge_height == GetOr(params, "bridge_height", 0)
        overstand == GetOr(params, "overstand", 0)
        string_height_nut == GetOr(params, "string_height_nut", 0)
        bridge_top_x == IF body_stop # << >> THEN body_stop[1]
                        ELSE GetDefault(params, "body_stop", 0)
        bridge_top_y == arching_height + bridge_height
        nut_top_x == -neck_stop
        nut_top_y == bridge_top_y - Scaled(vsl, math_sin(string_angle_to_ribs_rad))
        opposite_fb == fb_thickness_at_join - fb_thickness_at_nut
        fingerboard_angle == Degrees(math_atan(opposite_fb, neck_stop))
        neck_angle == 90 - (Degrees(string_angle_to_ribs_rad) - string_angle_to_fb
                            - fingerboard_angle)
        neck_angle_rad == Radians(neck_angle)
        neck_end_x == 0 - neck_stop + Scaled(fb_thickness_at_nut, math_cos(neck_angle_rad))
        neck_end_y == overstand - Scaled(neck_stop, math_cos(neck_angle_rad))
        dx == bridge_top_x - nut_top_x
        dy == bridge_top_y - nut_top_y
    IN  IF neck_stop = 0 THEN Raise("ZeroDivisionError")
        ELSE Value([neck_angle |-> neck_angle,
                    neck_stop |-> neck_stop,
                    neck_angle_rad |-> neck_angle_rad,
                    neck_end_x |-> neck_end_x,
                    neck_end_y |-> neck_end_y,
                    nut_draw_radius |-> fb_thickness_at_nut + string_height_nut,
                    neck_line_angle |-> math_atan2(neck_end_y - overstand, neck_end_x),
                    nut_top_x |-> nut_top_x,
                    nut_top_y |-> nut_top_y,
                    bridge_top_x |-> bridge_top_x,
                    bridge_top_y |-> bridge_top_y,
                    string_length |-> Sqrt(dx * dx + dy * dy),
                    nut_relative_to_ribs |-> nut_top_y])

\* constants.EPSILON (1e-10), in square units: below one unit
EPSILON == 0

\* lines 393-399 without the test of the determinant
NutPerpendicularUnguarded(nut_top_x, nut_top_y, overstand, string_dx, string_dy, perp_neck_dx, perp_neck_dy) ==
    LET det == string_dx * perp_neck_dy - string_dy * perp_neck_dx
        t_num == (0 - nut_top_x) * perp_neck_dy - (overstand - nut_top_y) * perp_neck_dx
        intersect_x == nut_top_x + QuoR(t_num * string_dx, det)
        intersect_y == nut_top_y + QuoR(t_num * string_dy, det)
        along_x == intersect_x - nut_top_x
        along_y == intersect_y - nut_top_y
    IN  IF det = 0 THEN Raise("ZeroDivisionError")
        ELSE Value([x |-> intersect_x, y |-> intersect_y,
                    distance |-> Sqrt(along_x * along_x + along_y * along_y)])

\* lines 393-403: where the string line meets the perpendicular to the neck
\* line through (0, overstand), and how far that is from the nut.  The
\* products stay within 32-bit integers for coordinates
\* of a few hundred units.
NutPerpendicular(nut_top_x, nut_top_y, overstand, string_dx, string_dy, perp_neck_dx, perp_neck_dy) ==
    LET det == string_dx * perp_neck_dy - string_dy * perp_neck_dx
        t_num == (0 - nut_top_x) * perp_neck_dy - (overstand - nut_top_y) * perp_neck_dx
        intersect_x == nut_top_x + QuoR(t_num * string_dx, det)
        intersect_y == nut_top_y + QuoR(t_num * string_dy, det)
        along_x == intersect_x - nut_top_x
        along_y == intersect_y - nut_top_y
    IN  IF Abs(det) > EPSILON
        THEN Value([x |-> intersect_x, y |-> intersect_y,
                    distance |-> Sqrt(along_x * along_x + along_y * along_y)])
        ELSE Value([x |-> 0, y |-> 0, distance |-> 0])

calculate_string_height_and_dimensions(params, neck_end_x, neck_end_y, nut_top_x, nut_top_y, bridge_top_x, bridge_top_y, fb_bottom_end_x, fb_bottom_end_y, fb_direction_angle, fb_thickness_at_end) ==
    LET overstand == GetOr(params, "overstand", 0)
        perp_angle == fb_direction_angle + QuoR(Radians(180), 2)
        perp_dx == math_cos(perp_angle)
        perp_dy == math_sin(perp_angle)
        fb_top_right_x == fb_bottom_end_x + Scaled(fb_thickness_at_end, perp_dx)
        fb_top_right_y == fb_bottom_end_y + Scaled(fb_thickness_at_end, perp_dy)
        neck_dx == neck_end_x - 0
        neck_dy == neck_end_y - overstand
        string_dx == bridge_top_x - nut_top_x
        string_dy == bridge_top_y - nut_top_y
        meet == NutPerpendicular(nut_top_x, nut_top_y, overstand, string_dx, string_dy,
                                 -neck_dy, neck_dx)
        fb_dx == fb_bottom_end_x - neck_end_x
        fb_dy == fb_bottom_end_y - neck_end_y
        string_x_at_fb_end ==
            IF string_dx # 0 THEN nut_top_x + QuoR(fb_dx * string_dx, string_dx)
            ELSE nut_top_x
        string_y_at_fb_end ==
            IF string_dx # 0 THEN nut_top_y + QuoR(fb_dx * string_dy, string_dx)
            ELSE IF string_dy # 0 THEN nut_top_y + QuoR(fb_dy * string_dy, string_dy)
            ELSE nut_top_y
        vec_x == string_x_at_fb_end - fb_top_right_x
        vec_y == string_y_at_fb_end - fb_top_right_y
        string_height_at_fb_end == Scaled(vec_x, perp_dx) + Scaled(vec_y, perp_dy)
    IN  IF meet.exc # "none" THEN Raise(meet.exc)
        ELSE Value([nut_perpendicular_intersection_x |-> meet.val.x,
                    nut_perpendicular_intersection_y |-> meet.val.y,
                    nut_to_perpendicular_distance |-> meet.val.distance,
                    string_x_at_fb_end |-> string_x_at_fb_end,
                    string_y_at_fb_end |-> string_y_at_fb_end,
                    fb_surface_point_x |->
                        string_x_at_fb_end - Scaled(string_height_at_fb_end, perp_dx),
                    fb_surface_point_y |->
                        string_y_at_fb_end - Scaled(string_height_at_fb_end, perp_dy),
                    string_height_at_fb_end |-> string_height_at_fb_end])

-----------------------------------------------------------------------------
VARIABLES
    sagRadius,      \* the radius of the calls made so far
    sagWidth,       \* the chord width of the latest call
    sagResult,      \* what the latest call returned
    sagPrevWidth,   \* the chord width of the call before it
    sagPrevResult,  \* what that call returned
    sagCalls,       \* calls made so far, counted up to 2
    genCalled,      \* generate_violin_neck has been called
    genInput,       \* the params_json of the latest call
    genEnv,         \* what the imports and the geometry code of that call came to
    genResult,      \* what the call came to: the JSON returned, or an exception
    svgLayers,      \* ExportSVG.layers
    svgLayerOrder,  \* the keys of ExportSVG.layers in the order the dict holds them
    svgShapes,      \* ExportSVG.shapes: (shape, layer name) pairs in order
    svgWritten,     \* the latest call was write
    svgOutput,      \* the elements write returned (empty after any other call)
    dimCall,        \* the latest call of a dimension builder
    dimResult,      \* what it came to: the shape list, or an exception
    geoCall,        \* the latest call of a geometry solver
    geoResult,      \* what it came to: the result dict, or an exception
    roleFamily,     \* the instrument family the roles are asked for
    roleAnswers,    \* parameter key -> what is_input_in_mode and is_output_in_mode said
    scnHeap,        \* the layer dicts and shape lists of the ExportSVG instances
    scnInst,        \* the ExportSVG instances: the addresses of their layers and shapes
    scnSolo,        \* per instance, the layers and shapes of its own calls alone
    scnWritten,     \* the instance the latest call, a write, was made on (else 0)
    scnOutput,      \* the elements that write returned (empty after any other call)
    shpHeap,        \* the shape objects constructed so far
    shpScene,       \* ExportSVG.shapes of one scene: (shape address, layer name) pairs
    shpAdded,       \* per scene entry, the shape as it was when add_shape received it
    bndCalled,      \* _calculate_bounds has been called
    bndSelf,        \* the exporter it was called on: layers, shapes and margin
    bndResult,      \* the bounds it returned
    rndCalled,      \* add_dimensions has been called and the drawing written
    rndShow,        \* show_measurements of the call
    rndAdded,       \* the (shape, layer) pairs add_dimensions added, or an exception
    rndOutput,      \* the elements write returned
    viewCalled,     \* generate_fret_positions_view has been called
    viewParams,     \* the params of the call
    viewResult,     \* the dict it returned
    bezPc,          \* find_bezier_t_for_y: "idle", "loop" or "done"
    bezArgs,        \* its arguments
    bezLow,         \* t_low
    bezHigh,        \* t_high
    bezIter,        \* the passes of the loop made so far
    bezResult,      \* the t it returned
    faceHeap,       \* the shape objects constructed so far
    faceArg,        \* the address make_face was called with, 0 before the call
    faceResult      \* what make_face returned or raised

sagVars == <<sagRadius, sagWidth, sagResult, sagPrevWidth, sagPrevResult, sagCalls>>

genVars == <<genCalled, genInput, genEnv, genResult>>

svgVars == <<svgLayers, svgLayerOrder, svgShapes, svgWritten, svgOutput>>

dimVars == <<dimCall, dimResult>>

geoVars == <<geoCall, geoResult>>

roleVars == <<roleFamily, roleAnswers>>

scnVars == <<scnHeap, scnInst, scnSolo, scnWritten, scnOutput>>

shpVars == <<shpHeap, shpScene, shpAdded>>

bndVars == <<bndCalled, bndSelf, bndResult>>

rndVars == <<rndCalled, rndShow, rndAdded, rndOutput>>

viewVars == <<viewCalled, viewParams, viewResult>>

bezVars == <<bezPc, bezArgs, bezLow, bezHigh, bezIter, bezResult>>

faceVars == <<faceHeap, faceArg, faceResult>>

vars == <<sagVars, genVars, svgVars, dimVars, geoVars, roleVars, scnVars, shpVars, bndVars, rndVars, viewVars, bezVars, faceVars>>

-----------------------------------------------------------------------------
(* Specification of the sagitta calculation: one radius, a sequence of     *)
(* calls with chord widths in any order.                                   *)

SagRadii == {r * LenScale : r \in -1 .. MaxSagRadius}

SagWidths == -1 .. (3 * MaxSagRadius * LenScale)

SagIdle ==
    /\ sagRadius = 0
    /\ sagWidth = 0
    /\ sagResult = 0
    /\ sagPrevWidth = 0
    /\ sagPrevResult = 0
    /\ sagCalls = 0

GenIdle ==
    /\ genCalled = FALSE
    /\ genInput = [wellformed |-> FALSE, value |-> JNull]
    /\ genEnv = [imports |-> "ok", views |-> "ok", frets |-> "ok", derived |-> "ok",
                 format |-> "ok", dumps |-> "ok"]
    /\ genResult = Raise("none")

\* ExportSVG.__init__
SvgIdle ==
    /\ svgLayers = [n \in {} |-> 0]
    /\ svgLayerOrder = << >>
    /\ svgShapes = << >>
    /\ svgWritten = FALSE
    /\ svgOutput = << >>

DimIdle ==
    /\ dimCall = [builder |-> "none"]
    /\ dimResult = Raise("none")

GeoIdle ==
    /\ geoCall = [solver |-> "none"]
    /\ geoResult = Raise("none")

RoleIdle ==
    /\ roleFamily = "VIOLIN"
    /\ roleAnswers = NoMembers

\* no ExportSVG instance constructed
ScnIdle ==
    /\ scnHeap = << >>
    /\ scnInst = << >>
    /\ scnSolo = << >>
    /\ scnWritten = 0
    /\ scnOutput = << >>

\* no shape constructed
ShpIdle ==
    /\ shpHeap = << >>
    /\ shpScene = << >>
    /\ shpAdded = << >>

BndIdle ==
    /\ bndCalled = FALSE
    /\ bndSelf = [layers |-> NoMembers, shapes |-> << >>, margin |-> 0]
    /\ bndResult = [finite |-> FALSE, min_x |-> 0, min_y |-> 0, max_x |-> 0, max_y |-> 0]

RndIdle ==
    /\ rndCalled = FALSE
    /\ rndShow = FALSE
    /\ rndAdded = Raise("none")
    /\ rndOutput = << >>

ViewIdle ==
    /\ viewCalled = FALSE
    /\ viewParams = NoMembers
    /\ viewResult = [available |-> FALSE, message |-> "", html |-> << >>, vsl |-> 0, no_frets |-> 0]

BezIdle ==
    /\ bezPc = "idle"
    /\ bezArgs = NoMembers
    /\ bezLow = 0
    /\ bezHigh = 0
    /\ bezIter = 0
    /\ bezResult = 0

\* no shape constructed, make_face not called
FaceIdle ==
    /\ faceHeap = << >>
    /\ faceArg = 0
    /\ faceResult = Value(0)

InitSagitta ==
    /\ sagRadius \in SagRadii
    /\ sagWidth = 0
    /\ sagResult = 0
    /\ sagPrevWidth = 0
    /\ sagPrevResult = 0
    /\ sagCalls = 0
    /\ GenIdle
    /\ SvgIdle
    /\ DimIdle
    /\ GeoIdle
    /\ FaceIdle
    /\ BezIdle
    /\ ViewIdle
    /\ RndIdle
    /\ BndIdle
    /\ ShpIdle
    /\ ScnIdle
    /\ RoleIdle

CallSagitta(w) ==
    /\ sagPrevWidth' = sagWidth
    /\ sagPrevResult' = sagResult
    /\ sagWidth' = w
    /\ sagResult' = calculate_sagitta(sagRadius, w)
    /\ sagCalls' = Min2(sagCalls + 1, 2)
    /\ UNCHANGED <<sagRadius, genVars, svgVars, dimVars, geoVars, roleVars, scnVars, shpVars, bndVars, rndVars, viewVars, bezVars, faceVars>>

NextSagitta == \E w \in SagWidths : CallSagitta(w)

SpecSagitta == InitSagitta /\ [][NextSagitta]_vars

-----------------------------------------------------------------------------
(* Specification of the generator entry point: any number of calls of     *)
(* generate_violin_neck, each with any text and any behaviour of the       *)
(* geometry code it calls.                                                 *)

GenKeys == {"vsl", "body_stop"}

\* values of a parameter: below, inside and above both ranges, and no number
GenMemberValues ==
    {JNum(n * LenScale) : n \in {-100, 10, 325, 2000}} \cup {JStr("not a number"), JNull}

GenObjects == UNION {[S -> GenMemberValues] : S \in SUBSET GenKeys}

GenValues ==
    {JNull, JNum(5), JStr("abc"), JStr("vsl"), JArr(<< >>), JArr(<<"vsl">>)}
        \cup {JObj(m) : m \in GenObjects}

GenDocs ==
    {[wellformed |-> FALSE, value |-> JNull]}
        \cup {[wellformed |-> TRUE, value |-> v] : v \in GenValues}

\* what the imports and the geometry code can come to
GenEnvs ==
    [imports : {"ok", "ImportError"},
     views   : {"ok", "ValueError", "ZeroDivisionError", "IndexError", "OSError"},
     frets   : {"ok", "TypeError"},
     derived : {"ok", "ZeroDivisionError"},
     format  : {"ok", "KeyError"},
     dumps   : {"ok", "TypeError"}]

InitGenerate ==
    /\ SagIdle
    /\ GenIdle
    /\ SvgIdle
    /\ DimIdle
    /\ GeoIdle
    /\ FaceIdle
    /\ BezIdle
    /\ ViewIdle
    /\ RndIdle
    /\ BndIdle
    /\ ShpIdle
    /\ ScnIdle
    /\ RoleIdle

\* generate_violin_neck keeps no state between calls: one call per behaviour
CallGenerate(doc, env) ==
    /\ ~genCalled
    /\ genCalled' = TRUE
    /\ genInput' = doc
    /\ genEnv' = env
    /\ genResult' = generate_violin_neck(doc, env)
    /\ UNCHANGED <<sagVars, svgVars, dimVars, geoVars, roleVars, scnVars, shpVars, bndVars, rndVars, viewVars, bezVars, faceVars>>

NextGenerate == \E doc \in GenDocs, env \in GenEnvs : CallGenerate(doc, env)

SpecGenerate == InitGenerate /\ [][NextGenerate]_vars

-----------------------------------------------------------------------------
(* Specification of one ExportSVG: add_layer, add_shape and write in any   *)
(* order.                                                                  *)

SvgLayerNames == {"default", "dimensions"}

SvgColors == {NoColor, <<255, 0, 0>>}

SvgLineTypes == {"CONTINUOUS", "DASHED"}

\* the objects handed to add_shape: path shapes, texts and a foreign object
SvgShapeValues ==
    { [kind |-> "Edge", filled |-> FALSE, fill_pattern |-> ""],
      [kind |-> "Polygon", filled |-> TRUE, fill_pattern |-> ""],
      [kind |-> "Polygon", filled |-> TRUE, fill_pattern |-> "diagonalHatch"],
      [kind |-> "Text", filled |-> FALSE, fill_pattern |-> ""],
      [kind |-> "Other", filled |-> FALSE, fill_pattern |-> ""] }

InitSvg ==
    /\ SagIdle
    /\ GenIdle
    /\ SvgIdle
    /\ DimIdle
    /\ GeoIdle
    /\ FaceIdle
    /\ BezIdle
    /\ ViewIdle
    /\ RndIdle
    /\ BndIdle
    /\ ShpIdle
    /\ ScnIdle
    /\ RoleIdle

AddLayer(name, fill_color, line_color, line_type) ==
    /\ svgLayers' = SetLayer(svgLayers, name, fill_color, line_color, line_type)
    /\ svgLayerOrder' = KeyOrderAfterSet(svgLayers, svgLayerOrder, name)
    /\ svgWritten' = FALSE
    /\ svgOutput' = << >>
    /\ UNCHANGED <<svgShapes, sagVars, genVars, dimVars, geoVars, roleVars, scnVars, shpVars, bndVars, rndVars, viewVars, bezVars, faceVars>>

AddShape(shape, layer) ==
    /\ Len(svgShapes) < MaxShapes
    /\ svgShapes' = Append(svgShapes, [shape |-> shape, layer |-> layer])
    /\ svgWritten' = FALSE
    /\ svgOutput' = << >>
    /\ UNCHANGED <<svgLayers, svgLayerOrder, sagVars, genVars, dimVars, geoVars, roleVars, scnVars, shpVars, bndVars, rndVars, viewVars, bezVars, faceVars>>

Write ==
    /\ svgWritten' = TRUE
    /\ svgOutput' = WriteElements(svgLayers, svgShapes)
    /\ UNCHANGED <<svgLayers, svgLayerOrder, svgShapes, sagVars, genVars, dimVars, geoVars, roleVars, scnVars, shpVars, bndVars, rndVars, viewVars, bezVars, faceVars>>

NextSvg ==
    \/ \E name \in SvgLayerNames, fill_color \in SvgColors, line_color \in SvgColors,
          line_type \in SvgLineTypes :
            AddLayer(name, fill_color, line_color, line_type)
    \/ \E shape \in SvgShapeValues, layer \in SvgLayerNames : AddShape(shape, layer)
    \/ Write

SpecSvg == InitSvg /\ [][NextSvg]_vars

-----------------------------------------------------------------------------
(* Specification of the dimension builders: one call of one builder, with  *)
(* feature lines between the points of a small grid.  The builders keep no *)
(* state, so a behaviour is a single call.                                 *)

DimPoints ==
    { << x * 10 * LenScale, y * 10 * LenScale >> : x \in 0 .. MaxDimCoord,
                                                  y \in 0 .. MaxDimCoord }

DimLines == { Edge_make_line(p, q) : p \in DimPoints, q \in DimPoints }

DimLabels == { << >>, << "15.0" >> }

DimCall(builder, line1, line2, label, extension_length) ==
    [builder |-> builder, line1 |-> line1, line2 |-> line2, label |-> label,
     extension_length |-> extension_length]

InitDim ==
    /\ SagIdle
    /\ GenIdle
    /\ SvgIdle
    /\ DimIdle
    /\ GeoIdle
    /\ FaceIdle
    /\ BezIdle
    /\ ViewIdle
    /\ RndIdle
    /\ BndIdle
    /\ ShpIdle
    /\ ScnIdle
    /\ RoleIdle

CallArrows(p1, p2) ==
    /\ dimCall.builder = "none"
    /\ dimCall' = DimCall("create_dimension_arrows", Edge_make_line(p1, p2),
                          Edge_make_line(p1, p2), << >>, 0)
    /\ dimResult' = Value(create_dimension_arrows(p1, p2, DIMENSION_ARROW_SIZE))
    /\ UNCHANGED <<sagVars, genVars, svgVars, geoVars, roleVars, scnVars, shpVars, bndVars, rndVars, viewVars, bezVars, faceVars>>

CallVertical(feature_line) ==
    /\ dimCall.builder = "none"
    /\ dimCall' = DimCall("create_vertical_dimension", feature_line, feature_line,
                          << "15.0" >>, DIMENSION_EXTENSION_LENGTH)
    /\ dimResult' = create_vertical_dimension(feature_line, "15.0",
                        DIMENSION_OFFSET_VERTICAL, DIMENSION_EXTENSION_LENGTH,
                        DIMENSION_FONT_SIZE, DIMENSION_ARROW_SIZE)
    /\ UNCHANGED <<sagVars, genVars, svgVars, geoVars, roleVars, scnVars, shpVars, bndVars, rndVars, viewVars, bezVars, faceVars>>

CallHorizontal(feature_line, extension_length) ==
    /\ dimCall.builder = "none"
    /\ dimCall' = DimCall("create_horizontal_dimension", feature_line, feature_line,
                          << "195.0" >>, extension_length)
    /\ dimResult' = create_horizontal_dimension(feature_line, "195.0",
                        DIMENSION_OFFSET_HORIZONTAL, extension_length,
                        DIMENSION_FONT_SIZE, DIMENSION_ARROW_SIZE)
    /\ UNCHANGED <<sagVars, genVars, svgVars, geoVars, roleVars, scnVars, shpVars, bndVars, rndVars, viewVars, bezVars, faceVars>>

CallDiagonal(feature_line) ==
    /\ dimCall.builder = "none"
    /\ dimCall' = DimCall("create_diagonal_dimension", feature_line, feature_line,
                          << "325.0" >>, DIMENSION_EXTENSION_LENGTH)
    /\ dimResult' = create_diagonal_dimension(feature_line, "325.0",
                        DIMENSION_OFFSET_DIAGONAL, DIMENSION_EXTENSION_LENGTH,
                        DIMENSION_FONT_SIZE, DIMENSION_ARROW_SIZE)
    /\ UNCHANGED <<sagVars, genVars, svgVars, geoVars, roleVars, scnVars, shpVars, bndVars, rndVars, viewVars, bezVars, faceVars>>

CallAngle(line1, line2, label) ==
    /\ dimCall.builder = "none"
    /\ dimCall' = DimCall("create_angle_dimension", line1, line2, label, 0)
    /\ dimResult' = create_angle_dimension(line1, line2, label, 15 * LenScale,
                        DIMENSION_FONT_SIZE, 5 * LenScale)
    /\ UNCHANGED <<sagVars, genVars, svgVars, geoVars, roleVars, scnVars, shpVars, bndVars, rndVars, viewVars, bezVars, faceVars>>

NextDim ==
    \/ \E p1 \in DimPoints, p2 \in DimPoints : CallArrows(p1, p2)
    \/ \E feature_line \in DimLines : CallVertical(feature_line)
    \/ \E feature_line \in DimLines, extension_length \in {0, DIMENSION_EXTENSION_LENGTH} :
          CallHorizontal(feature_line, extension_length)
    \/ \E feature_line \in DimLines : CallDiagonal(feature_line)
    \/ \E line1 \in DimLines, line2 \in DimLines, label \in DimLabels :
          CallAngle(line1, line2, label)

SpecDim == InitDim /\ [][NextDim]_vars

-----------------------------------------------------------------------------
(* Specifications of the geometry solvers: one call of one solver.  The    *)
(* solvers keep no state, so a behaviour is a single call.                 *)

\* tenths of a millimetre
Tenths(n) == QuoR(n * LenScale, 10)

\* the dict with the given numbers under the given keys, the absent keys
\* being left out
Dict(entries, absent) == [k \in DOMAIN entries \ absent |-> entries[k]]

\* the dict as json.loads returns it
NumDict(params) == JObj([k \in DOMAIN params |-> JNum(params[k])])

(* the fret-join solver *)

GuitarLengths == {0, 100 * LenScale, 650 * LenScale}

GuitarFretCounts == {11, 14, 24}

\* the fret table as calculate_fret_positions returns it (fret 1 at index
\* 0) and with the nut put in front (fret i at index i)
GuitarFretTables(vsl) ==
    UNION { { calculate_fret_positions(vsl, no_frets),
              <<0>> \o calculate_fret_positions(vsl, no_frets) } :
            no_frets \in GuitarFretCounts }

GuitarParams ==
    { Dict([fret_join |-> fret_join, string_height_nut |-> Tenths(6),
            string_height_12th_fret |-> Tenths(25), arching_height |-> arching_height,
            bridge_height |-> bridge_height, overstand |-> overstand], absent) :
        absent \in {{}, {"fret_join"}},
        fret_join \in {7, 12, 14, -1},
        arching_height \in {0, 15 * LenScale, 100 * LenScale},
        bridge_height \in {10 * LenScale, 100 * LenScale},
        overstand \in {0, 12 * LenScale} }

InitGeo ==
    /\ SagIdle
    /\ GenIdle
    /\ SvgIdle
    /\ DimIdle
    /\ GeoIdle
    /\ FaceIdle
    /\ BezIdle
    /\ ViewIdle
    /\ RndIdle
    /\ BndIdle
    /\ ShpIdle
    /\ ScnIdle
    /\ RoleIdle

CallGuitar(params, vsl, fret_positions, fb_thickness_at_join) ==
    /\ geoCall.solver = "none"
    /\ geoCall' = [solver |-> "calculate_string_angles_guitar", params |-> params,
                   vsl |-> vsl, fret_positions |-> fret_positions,
                   fb_thickness_at_join |-> fb_thickness_at_join]
    /\ geoResult' = calculate_string_angles_guitar(params, vsl, fret_positions,
                                                   fb_thickness_at_join)
    /\ UNCHANGED <<sagVars, genVars, svgVars, dimVars, roleVars, scnVars, shpVars, bndVars, rndVars, viewVars, bezVars, faceVars>>

NextGuitar ==
    \E params \in GuitarParams, vsl \in GuitarLengths :
        \E fret_positions \in GuitarFretTables(vsl) :
            CallGuitar(params, vsl, fret_positions, 6 * LenScale)

SpecGuitar == InitGeo /\ [][NextGuitar]_vars

(* the body-stop solver, on the parameters a caller has validated *)

ViolinParams ==
    { Dict([vsl |-> vsl, body_stop |-> body_stop, arching_height |-> arching_height,
            bridge_height |-> bridge_height, overstand |-> overstand,
            string_height_nut |-> Tenths(6), string_height_eof |-> Tenths(40),
            fingerboard_length |-> fingerboard_length], absent) :
        absent \in {{}, {"body_stop"}, {"fingerboard_length"}},
        vsl \in {5 * LenScale, 10 * LenScale, 100 * LenScale, 325 * LenScale,
                 1000 * LenScale},
        body_stop \in {10 * LenScale, 195 * LenScale, 500 * LenScale, 600 * LenScale},
        arching_height \in {0, 15 * LenScale, 100 * LenScale},
        bridge_height \in {0, 33 * LenScale},
        overstand \in {0, 12 * LenScale},
        fingerboard_length \in {20 * LenScale, 270 * LenScale} }

CallViolin(params, fb_thickness_at_join) ==
    /\ geoCall.solver = "none"
    /\ geoCall' = [solver |-> "calculate_string_angles_violin", params |-> params,
                   validated |-> validate_parameters(NumDict(params)),
                   vsl |-> params["vsl"],
                   fb_thickness_at_join |-> fb_thickness_at_join]
    /\ geoResult' = calculate_string_angles_violin(params, params["vsl"],
                                                   fb_thickness_at_join)
    /\ UNCHANGED <<sagVars, genVars, svgVars, dimVars, roleVars, scnVars, shpVars, bndVars, rndVars, viewVars, bezVars, faceVars>>

NextViolin ==
    \E params \in ViolinParams, fb_thickness_at_join \in {Tenths(55), Tenths(75)} :
        CallViolin(params, fb_thickness_at_join)

SpecViolin == InitGeo /\ [][NextViolin]_vars

(* the neck geometry *)

NeckParams ==
    { Dict([arching_height |-> 15 * LenScale, bridge_height |-> 33 * LenScale,
            overstand |-> 12 * LenScale, string_height_nut |-> Tenths(6),
            body_stop |-> 195 * LenScale], absent) :
        absent \in {{}, {"body_stop"}} }

NeckStops == {0, 130 * LenScale, (-50) * LenScale}

\* string_angle_to_ribs_rad: -1.4, 0, 0.087, 0.785, 1.4 and 1.571
NeckRibAngles == {-1400, 0, 87, 785, 1400, 1571}

\* string_angle_to_fb, in degrees
NeckFingerboardAngles == {-20, 0, 2, 45}

CallNeck(params, vsl, neck_stop, string_angle_to_ribs_rad, string_angle_to_fb, fb_thickness_at_nut, fb_thickness_at_join, body_stop) ==
    /\ geoCall.solver = "none"
    /\ geoCall' = [solver |-> "calculate_neck_geometry", params |-> params, vsl |-> vsl,
                   neck_stop |-> neck_stop,
                   string_angle_to_ribs_rad |-> string_angle_to_ribs_rad,
                   string_angle_to_fb |-> string_angle_to_fb,
                   fb_thickness_at_nut |-> fb_thickness_at_nut,
                   fb_thickness_at_join |-> fb_thickness_at_join,
                   body_stop |-> body_stop]
    /\ geoResult' = calculate_neck_geometry(params, vsl, neck_stop,
                        string_angle_to_ribs_rad, string_angle_to_fb,
                        fb_thickness_at_nut, fb_thickness_at_join, body_stop)
    /\ UNCHANGED <<sagVars, genVars, svgVars, dimVars, roleVars, scnVars, shpVars, bndVars, rndVars, viewVars, bezVars, faceVars>>

NextNeck ==
    \E params \in NeckParams, neck_stop \in NeckStops,
       string_angle_to_ribs_rad \in NeckRibAngles,
       string_angle_to_fb \in NeckFingerboardAngles,
       fb_thickness_at_join \in {5 * LenScale, 7 * LenScale},
       body_stop \in {<< >>, << 195 * LenScale >>} :
        CallNeck(params, 325 * LenScale, neck_stop, string_angle_to_ribs_rad,
                 string_angle_to_fb, 5 * LenScale, fb_thickness_at_join, body_stop)

SpecNeck == InitGeo /\ [][NextNeck]_vars

(* the string height and the dimension points *)

HeightCoords == { c * LenScale : c \in (-MaxHeightCoord) .. MaxHeightCoord }

HeightPoints == HeightCoords \X HeightCoords

CallHeight(params, neck_end, nut_top, bridge_top, fb_bottom_end, fb_direction_angle, fb_thickness_at_end) ==
    /\ geoCall.solver = "none"
    /\ geoCall' = [solver |-> "calculate_string_height_and_dimensions",
                   params |-> params, neck_end |-> neck_end, nut_top |-> nut_top,
                   bridge_top |-> bridge_top, fb_bottom_end |-> fb_bottom_end,
                   fb_direction_angle |-> fb_direction_angle,
                   fb_thickness_at_end |-> fb_thickness_at_end]
    /\ geoResult' = calculate_string_height_and_dimensions(params,
                        neck_end[1], neck_end[2], nut_top[1], nut_top[2],
                        bridge_top[1], bridge_top[2], fb_bottom_end[1], fb_bottom_end[2],
                        fb_direction_angle, fb_thickness_at_end)
    /\ UNCHANGED <<sagVars, genVars, svgVars, dimVars, roleVars, scnVars, shpVars, bndVars, rndVars, viewVars, bezVars, faceVars>>

NextHeight ==
    \E absent \in {{}, {"overstand"}},
       neck_end \in HeightPoints, nut_top \in HeightPoints, bridge_top \in HeightPoints,
       fb_direction_angle \in {0, Radians(180)} :
        CallHeight(Dict([overstand |-> LenScale], absent), neck_end, nut_top, bridge_top,
                   << -LenScale, LenScale >>, fb_direction_angle, LenScale)

SpecHeight == InitGeo /\ [][NextHeight]_vars

-----------------------------------------------------------------------------
(* Specification of the role queries: one instrument family, and the roles *)
(* of registry parameters asked in any order.                              *)

InitRoles ==
    /\ roleFamily \in InstrumentFamily
    /\ roleAnswers = NoMembers
    /\ SagIdle
    /\ GenIdle
    /\ SvgIdle
    /\ DimIdle
    /\ GeoIdle
    /\ FaceIdle
    /\ BezIdle
    /\ ViewIdle
    /\ RndIdle
    /\ BndIdle
    /\ ShpIdle
    /\ ScnIdle

AskRole(key) ==
    /\ key \notin DOMAIN roleAnswers
    /\ roleAnswers' =
          [k \in DOMAIN roleAnswers \cup {key} |->
              IF k = key
              THEN [is_input |-> is_input_in_mode(PARAMETER_ROLES[key], roleFamily),
                    is_output |-> is_output_in_mode(PARAMETER_ROLES[key], roleFamily)]
              ELSE roleAnswers[k]]
    /\ UNCHANGED <<roleFamily, sagVars, genVars, svgVars, dimVars, geoVars, scnVars, shpVars, bndVars, rndVars, viewVars, bezVars, faceVars>>

NextRoles == \E key \in DOMAIN PARAMETER_ROLES : AskRole(key)

SpecRoles == InitRoles /\ [][NextRoles]_vars

-----------------------------------------------------------------------------
(* Specification of two scenes: two ExportSVG instances constructed one    *)
(* after the other, and add_layer, add_shape and write calls on either in  *)
(* any interleaving.  scnSolo keeps, for each instance, the layers and     *)
(* shapes of a run in which only that instance's calls are executed.       *)

SceneIds == {1, 2}

SceneShape == [kind |-> "Edge", filled |-> FALSE, fill_pattern |-> ""]

InitScenes ==
    /\ LET first == ExportSVG_init(<< >>)
           second == ExportSVG_init(first.heap)
       IN  /\ scnHeap = second.heap
           /\ scnInst = <<first.self, second.self>>
    /\ scnSolo = [i \in SceneIds |-> [layers |-> NoMembers, shapes |-> << >>]]
    /\ scnWritten = 0
    /\ scnOutput = << >>
    /\ SagIdle
    /\ GenIdle
    /\ SvgIdle
    /\ DimIdle
    /\ GeoIdle
    /\ FaceIdle
    /\ BezIdle
    /\ ViewIdle
    /\ RndIdle
    /\ BndIdle
    /\ ShpIdle
    /\ RoleIdle

SceneAddLayer(i, name, color) ==
    /\ scnHeap' = ExportSVG_add_layer(scnHeap, scnInst[i], name, color, color, "CONTINUOUS")
    /\ scnSolo' = [scnSolo EXCEPT ![i].layers = SetLayer(@, name, color, color, "CONTINUOUS")]
    /\ scnWritten' = 0
    /\ scnOutput' = << >>
    /\ UNCHANGED <<scnInst, sagVars, genVars, svgVars, dimVars, geoVars, roleVars, shpVars, bndVars, rndVars, viewVars, bezVars, faceVars>>

SceneAddShape(i, layer) ==
    /\ Len(scnHeap[scnInst[i].shapes]) < MaxShapes
    /\ Len(scnSolo[i].shapes) < MaxShapes
    /\ scnHeap' = ExportSVG_add_shape(scnHeap, scnInst[i], SceneShape, layer)
    /\ scnSolo' = [scnSolo EXCEPT ![i].shapes = Append(@, [shape |-> SceneShape, layer |-> layer])]
    /\ scnWritten' = 0
    /\ scnOutput' = << >>
    /\ UNCHANGED <<scnInst, sagVars, genVars, svgVars, dimVars, geoVars, roleVars, shpVars, bndVars, rndVars, viewVars, bezVars, faceVars>>

SceneWrite(i) ==
    /\ scnWritten' = i
    /\ scnOutput' = ExportSVG_write(scnHeap, scnInst[i])
    /\ UNCHANGED <<scnHeap, scnInst, scnSolo, sagVars, genVars, svgVars, dimVars, geoVars, roleVars, shpVars, bndVars, rndVars, viewVars, bezVars, faceVars>>

NextScenes ==
    \/ \E i \in SceneIds, name \in SvgLayerNames, color \in SvgColors :
            SceneAddLayer(i, name, color)
    \/ \E i \in SceneIds, layer \in SvgLayerNames : SceneAddShape(i, layer)
    \/ \E i \in SceneIds : SceneWrite(i)

SpecScenes == InitScenes /\ [][NextScenes]_vars

-----------------------------------------------------------------------------
(* Specification of shapes in a scene: shapes are constructed, moved,      *)
(* rotated and added to one scene in any order.  shpAdded keeps what each  *)
(* scene entry was when add_shape received it.                             *)

MaxObjects == 3

ShapeLocation == <<10 * LenScale, 5 * LenScale>>

ShapeAngle == 90

NewShapes ==
    { Rectangle_init(4 * LenScale, 2 * LenScale),
      Polygon_init(<< <<0, 0>>, <<LenScale, 0>>, <<0, LenScale>> >>, TRUE, ""),
      Text_init("a", 3 * LenScale, "Roboto") }

InitShapes ==
    /\ shpHeap = << >>
    /\ shpScene = << >>
    /\ shpAdded = << >>
    /\ SagIdle
    /\ GenIdle
    /\ SvgIdle
    /\ DimIdle
    /\ GeoIdle
    /\ FaceIdle
    /\ BezIdle
    /\ ViewIdle
    /\ RndIdle
    /\ BndIdle
    /\ RoleIdle
    /\ ScnIdle

Construct(shape) ==
    /\ Len(shpHeap) < MaxObjects
    /\ shpHeap' = Append(shpHeap, shape)
    /\ UNCHANGED <<shpScene, shpAdded, sagVars, genVars, svgVars, dimVars, geoVars, roleVars, scnVars, bndVars, rndVars, viewVars, bezVars, faceVars>>

MoveShape(self) ==
    /\ Len(shpHeap) < MaxObjects
    /\ shpHeap' = Move(shpHeap, self, ShapeLocation).heap
    /\ UNCHANGED <<shpScene, shpAdded, sagVars, genVars, svgVars, dimVars, geoVars, roleVars, scnVars, bndVars, rndVars, viewVars, bezVars, faceVars>>

RotateShape(self) ==
    /\ Len(shpHeap) < MaxObjects
    /\ shpHeap[self].kind = "Text"
    /\ shpHeap' = Text_rotate(shpHeap, self, ShapeLocation, ShapeAngle).heap
    /\ UNCHANGED <<shpScene, shpAdded, sagVars, genVars, svgVars, dimVars, geoVars, roleVars, scnVars, bndVars, rndVars, viewVars, bezVars, faceVars>>

AddToScene(self) ==
    /\ Len(shpScene) < MaxShapes
    /\ shpScene' = Append(shpScene, [shape |-> self, layer |-> "default"])
    /\ shpAdded' = Append(shpAdded, shpHeap[self])
    /\ UNCHANGED <<shpHeap, sagVars, genVars, svgVars, dimVars, geoVars, roleVars, scnVars, bndVars, rndVars, viewVars, bezVars, faceVars>>

NextShapes ==
    \/ \E shape \in NewShapes : Construct(shape)
    \/ \E self \in DOMAIN shpHeap : MoveShape(self)
    \/ \E self \in DOMAIN shpHeap : RotateShape(self)
    \/ \E self \in DOMAIN shpHeap : AddToScene(self)

SpecShapes == InitShapes /\ [][NextShapes]_vars

-----------------------------------------------------------------------------
(* Specification of the bounds calculation: one call of _calculate_bounds  *)
(* on a scene holding one rectangle, one arc or a pair of other shapes.    *)

RectSizes == {0, 3 * LenScale, 4 * LenScale}

RectCentres == {-5 * LenScale, 0, 10 * LenScale}

ArcRadii == {10 * LenScale, 30 * LenScale}

ArcAngles == {45 * k : k \in -2 .. 16}

OtherShapes ==
    { Edge_make_line(<<0, 0>>, <<-3 * LenScale, 4 * LenScale>>),
      [Polygon_init(<< <<0, 0>>, <<LenScale, 0>>, <<0, LenScale>> >>, TRUE, "")
          EXCEPT !.x = 2 * LenScale, !.y = -LenScale],
      [Text_init("12.5", 3 * LenScale, "Roboto") EXCEPT !.x = LenScale, !.y = 6 * LenScale],
      Spline_init(<< <<0, 0>>, <<5 * LenScale, 9 * LenScale>>, <<10 * LenScale, 0>> >>, FALSE),
      Spline_init(<< <<0, 0>>, <<0, 8 * LenScale>>, <<8 * LenScale, 8 * LenScale>>,
                     <<8 * LenScale, 0>> >>, TRUE),
      [kind |-> "Other"] }

\* an exporter with the dimensions layer registered in dim_color and the
\* given (shape, layer) pairs added
SceneOf(dim_color, shapes) ==
    [layers |-> SetLayer(NoMembers, "dimensions", dim_color, dim_color, "DASHED"),
     shapes |-> shapes,
     margin |-> 20 * LenScale]

InitBounds ==
    /\ SagIdle
    /\ GenIdle
    /\ SvgIdle
    /\ DimIdle
    /\ GeoIdle
    /\ FaceIdle
    /\ BezIdle
    /\ ViewIdle
    /\ RndIdle
    /\ RoleIdle
    /\ ScnIdle
    /\ ShpIdle
    /\ BndIdle

CallBounds(self) ==
    /\ bndCalled = FALSE
    /\ bndCalled' = TRUE
    /\ bndSelf' = self
    /\ bndResult' = calculate_bounds(self)
    /\ UNCHANGED <<sagVars, genVars, svgVars, dimVars, geoVars, roleVars, scnVars, shpVars, rndVars, viewVars, bezVars, faceVars>>

BoundsOfRectangle(width, height, cx, cy, layer, dim_color) ==
    CallBounds(SceneOf(dim_color,
        <<OnLayer([Rectangle_init(width, height) EXCEPT !.x = cx, !.y = cy], layer)>>))

BoundsOfArc(center, radius, start_angle, end_angle, layer) ==
    CallBounds(SceneOf(NoColor,
        <<OnLayer(Arc_make_arc(center, radius, start_angle, end_angle), layer)>>))

BoundsOfOthers(first, second) ==
    CallBounds(SceneOf(NoColor, <<OnLayer(first, "default"), OnLayer(second, "dimensions")>>))

BoundsOfNothing == CallBounds(SceneOf(NoColor, << >>))

NextBounds ==
    \/ \E width \in RectSizes, height \in RectSizes, cx \in RectCentres, cy \in RectCentres,
          layer \in SvgLayerNames, dim_color \in SvgColors :
            BoundsOfRectangle(width, height, cx, cy, layer, dim_color)
    \/ \E center \in {<<0, 0>>}, radius \in ArcRadii, start_angle \in ArcAngles,
          end_angle \in ArcAngles, layer \in SvgLayerNames :
            BoundsOfArc(center, radius, start_angle, end_angle, layer)
    \/ \E first \in OtherShapes, second \in OtherShapes : BoundsOfOthers(first, second)
    \/ BoundsOfNothing

SpecBounds == InitBounds /\ [][NextBounds]_vars

-----------------------------------------------------------------------------
(* Specification of the dimension annotations of the side view: one        *)
(* exporter from setup_exporter, one call of add_dimensions and write.     *)
(* The instrument is a small one, so that squared distances fit.           *)

DimensionArgs(body_length, rib_height, overstand, nut_to_perp_distance, tailpiece_height, string_break_angle) ==
    [reference_line_end_x |-> (-15) * LenScale,
     nut_top_x |-> (-12) * LenScale, nut_top_y |-> 3 * LenScale,
     bridge_top_x |-> 14 * LenScale, bridge_top_y |-> 5 * LenScale,
     string_line |-> Edge_make_line(<<(-12) * LenScale, 3 * LenScale>>,
                                    <<14 * LenScale, 5 * LenScale>>),
     string_length |-> 26 * LenScale,
     neck_end_x |-> (-13) * LenScale, neck_end_y |-> 2 * LenScale,
     overstand |-> overstand, body_stop |-> 14 * LenScale,
     arching_height |-> 2 * LenScale, bridge_height |-> 3 * LenScale,
     body_length |-> body_length, rib_height |-> rib_height,
     belly_edge_thickness |-> LenScale,
     fb_surface_point_x |-> (-5) * LenScale, fb_surface_point_y |-> 2 * LenScale,
     string_x_at_fb_end |-> (-5) * LenScale, string_y_at_fb_end |-> 3 * LenScale,
     string_height_at_fb_end |-> LenScale,
     intersect_x |-> (-10) * LenScale, intersect_y |-> 2 * LenScale,
     nut_to_perp_distance |-> nut_to_perp_distance,
     tailpiece_height |-> tailpiece_height,
     string_break_angle |-> string_break_angle]

InitRender ==
    /\ SagIdle
    /\ GenIdle
    /\ SvgIdle
    /\ DimIdle
    /\ GeoIdle
    /\ FaceIdle
    /\ BezIdle
    /\ ViewIdle
    /\ RoleIdle
    /\ ScnIdle
    /\ ShpIdle
    /\ BndIdle
    /\ RndIdle

RenderDimensions(show_measurements, a) ==
    /\ rndCalled = FALSE
    /\ rndCalled' = TRUE
    /\ rndShow' = show_measurements
    /\ \E added \in {add_dimensions(show_measurements, a)} :
          /\ rndAdded' = added
          /\ rndOutput' = IF added.exc = "none"
                          THEN WriteElements(setup_exporter(show_measurements), added.val)
                          ELSE << >>
    /\ UNCHANGED <<sagVars, genVars, svgVars, dimVars, geoVars, roleVars, scnVars, shpVars, bndVars, viewVars, bezVars, faceVars>>

NextRender ==
    \E show_measurements \in BOOLEAN,
       body_length \in {24 * LenScale, 26 * LenScale},
       rib_height \in {2 * LenScale, 3 * LenScale, 4 * LenScale},
       overstand \in {0, LenScale},
       nut_to_perp_distance \in {0, 2 * LenScale},
       tailpiece_height \in {0, LenScale},
       string_break_angle \in {0, 12} :
        RenderDimensions(show_measurements,
            DimensionArgs(body_length, rib_height, overstand, nut_to_perp_distance,
                          tailpiece_height, string_break_angle))

SpecRender == InitRender /\ [][NextRender]_vars

-----------------------------------------------------------------------------
(* Specification of the fret table view: one call of                       *)
(* generate_fret_positions_view with each of vsl, instrument_family and    *)
(* no_frets absent, null or given.                                         *)

\* the dicts with the key absent (no value) or bound to one of the values
WithKey(dicts, key, values) ==
    dicts \cup { [k \in DOMAIN d \cup {key} |-> IF k = key THEN v ELSE d[k]] :
                    d \in dicts, v \in values }

FretViewParams ==
    WithKey(WithKey(WithKey({NoMembers},
        "vsl", {JNull, JNum(0), JNum(325 * LenScale)}),
        "instrument_family",
            {JNull, JStr("VIOLIN"), JStr("VIOL"), JStr("GUITAR_MANDOLIN"), JStr("OTHER")}),
        "no_frets", {JNull, JNum(0), JNum(1), JNum(7), JNum(24), JNum(-1)})

InitFretView ==
    /\ SagIdle
    /\ GenIdle
    /\ SvgIdle
    /\ DimIdle
    /\ GeoIdle
    /\ FaceIdle
    /\ BezIdle
    /\ RoleIdle
    /\ ScnIdle
    /\ ShpIdle
    /\ BndIdle
    /\ RndIdle
    /\ ViewIdle

CallFretView(params) ==
    /\ viewCalled = FALSE
    /\ viewCalled' = TRUE
    /\ viewParams' = params
    /\ viewResult' = generate_fret_positions_view(params)
    /\ UNCHANGED <<sagVars, genVars, svgVars, dimVars, geoVars, roleVars, scnVars, shpVars, bndVars, rndVars, bezVars, faceVars>>

NextFretView == \E params \in FretViewParams : CallFretView(params)

SpecFretView == InitFretView /\ [][NextFretView]_vars

-----------------------------------------------------------------------------
(* Specification of the two string-angle solvers on the same parameters:   *)
(* one call of the body-stop solver or of the fret-join solver, the dict   *)
(* holding the keys of both.                                               *)

StringAngleParams ==
    { [vsl |-> vsl, body_stop |-> QuoR(vsl * 6, 10), fret_join |-> fret_join,
       arching_height |-> 15 * LenScale, bridge_height |-> bridge_height,
       overstand |-> 6 * LenScale, string_height_nut |-> string_height_nut,
       string_height_eof |-> string_height_eof,
       string_height_12th_fret |-> string_height_12th_fret,
       fingerboard_length |-> fingerboard_length] :
        vsl \in {100 * LenScale, 325 * LenScale, 650 * LenScale},
        fret_join \in {7, 12, 14},
        bridge_height \in {12 * LenScale, 33 * LenScale},
        string_height_nut \in {Tenths(6), Tenths(10)},
        string_height_eof \in {Tenths(40), Tenths(100)},
        string_height_12th_fret \in {Tenths(40), Tenths(100)},
        fingerboard_length \in {20 * LenScale, 50 * LenScale, 270 * LenScale} }

NextStringAngles ==
    \E params \in StringAngleParams :
        \/ CallViolin(params, Tenths(75))
        \/ CallGuitar(params, params["vsl"],
                      <<0>> \o calculate_fret_positions(params["vsl"], 14), Tenths(75))

SpecStringAngles == InitGeo /\ [][NextStringAngles]_vars

-----------------------------------------------------------------------------
(* Specification of the fingerboard thickness: one call of                 *)
(* calculate_fingerboard_thickness, each parameter missing or supplied     *)
(* within its registry range.                                              *)

ThicknessParams ==
    WithKey(WithKey(WithKey(WithKey(WithKey({NoMembers},
        "fingerboard_radius", {20 * LenScale, 41 * LenScale, 300 * LenScale}),
        "fb_visible_height_at_nut", {0, Tenths(1), 4 * LenScale, 100 * LenScale}),
        "fb_visible_height_at_join", {0, 6 * LenScale, 100 * LenScale}),
        "fingerboard_width_at_nut", {10 * LenScale, 24 * LenScale}),
        "fingerboard_width_at_end", {30 * LenScale, 100 * LenScale})

CallThickness(params) ==
    /\ geoCall.solver = "none"
    /\ geoCall' = [solver |-> "calculate_fingerboard_thickness", params |-> params]
    /\ geoResult' = Value(calculate_fingerboard_thickness(params))
    /\ UNCHANGED <<sagVars, genVars, svgVars, dimVars, roleVars, scnVars, shpVars, bndVars, rndVars, viewVars, bezVars, faceVars>>

NextThickness == \E params \in ThicknessParams : CallThickness(params)

SpecThickness == InitGeo /\ [][NextThickness]_vars

-----------------------------------------------------------------------------
(* Specification of the fret-join solver on a fret table built for the     *)
(* no_frets of the parameters, the nut in front: one call, on parameters   *)
(* that validate_parameters has seen.                                      *)

FretJoinParams ==
    { [instrument_family |-> "GUITAR_MANDOLIN", vsl |-> vsl, no_frets |-> no_frets,
       fret_join |-> fret_join, string_height_nut |-> Tenths(6),
       string_height_12th_fret |-> Tenths(40), arching_height |-> 10 * LenScale,
       bridge_height |-> bridge_height, overstand |-> 6 * LenScale] :
        vsl \in {325 * LenScale, 650 * LenScale},
        no_frets \in {0, 1, 7, 11, 12, 20, 30},
        fret_join \in {1, 7, 12, 20, 24},
        bridge_height \in {12 * LenScale, 33 * LenScale} }

\* the numeric parameters as json.loads returns them, with the family name
FretJoinDocument(params) ==
    JObj([k \in DOMAIN params |->
            IF k = "instrument_family" THEN JStr(params[k]) ELSE JNum(params[k])])

\* fret_positions = calculate_fret_positions(vsl, no_frets) with the nut
\* position inserted at index 0
FretTableWithNut(vsl, no_frets) == <<0>> \o calculate_fret_positions(vsl, no_frets)

CallFretJoin(params) ==
    /\ geoCall.solver = "none"
    /\ geoCall' = [solver |-> "calculate_string_angles_guitar", params |-> params,
                   validated |-> validate_parameters(FretJoinDocument(params)),
                   vsl |-> params["vsl"],
                   fret_positions |-> FretTableWithNut(params["vsl"], params["no_frets"]),
                   fb_thickness_at_join |-> 8 * LenScale]
    /\ geoResult' = calculate_string_angles_guitar(params, params["vsl"],
                        FretTableWithNut(params["vsl"], params["no_frets"]), 8 * LenScale)
    /\ UNCHANGED <<sagVars, genVars, svgVars, dimVars, roleVars, scnVars, shpVars, bndVars, rndVars, viewVars, bezVars, faceVars>>

NextFretJoin == \E params \in FretJoinParams : CallFretJoin(params)

SpecFretJoin == InitGeo /\ [][NextFretJoin]_vars

-----------------------------------------------------------------------------
(* Specification of find_bezier_t_for_y: the call, then the passes of the  *)
(* bisection loop one at a time, then the return.  The loop is sequential  *)
(* code, so a pass that can be made is made.                               *)

\* the y of the control points: rising, rising and falling, level, falling
BezierCurves ==
    { << <<0, 0>>, <<10 * LenScale, 10 * LenScale>>, <<20 * LenScale, 20 * LenScale>>,
         <<30 * LenScale, 30 * LenScale>> >>,
      << <<0, 0>>, <<10 * LenScale, 30 * LenScale>>, <<20 * LenScale, -10 * LenScale>>,
         <<30 * LenScale, 10 * LenScale>> >>,
      << <<0, 5 * LenScale>>, <<10 * LenScale, 5 * LenScale>>, <<20 * LenScale, 5 * LenScale>>,
         <<30 * LenScale, 5 * LenScale>> >>,
      << <<0, 30 * LenScale>>, <<10 * LenScale, 20 * LenScale>>, <<20 * LenScale, 10 * LenScale>>,
         <<30 * LenScale, 0>> >> }

BezierTargets == {-5 * LenScale, 0, 7 * LenScale, 15 * LenScale, 100 * LenScale}

BezierTolerances == {-1, 0, 1, 2 * LenScale}

InitBezier ==
    /\ SagIdle
    /\ GenIdle
    /\ SvgIdle
    /\ DimIdle
    /\ GeoIdle
    /\ FaceIdle
    /\ RoleIdle
    /\ ScnIdle
    /\ ShpIdle
    /\ BndIdle
    /\ RndIdle
    /\ ViewIdle
    /\ BezIdle

\* lines 83: t_low, t_high = 0.0, 1.0
BezierCall(curve, target_y, tolerance) ==
    /\ bezPc = "idle"
    /\ bezPc' = "loop"
    /\ bezArgs' = [p0 |-> curve[1], cp1 |-> curve[2], cp2 |-> curve[3], p3 |-> curve[4],
                   target_y |-> target_y, tolerance |-> tolerance]
    /\ bezLow' = 0
    /\ bezHigh' = TScale
    /\ bezIter' = 0
    /\ UNCHANGED <<bezResult, sagVars, genVars, svgVars, dimVars, geoVars, roleVars, scnVars, shpVars, bndVars, rndVars, viewVars, faceVars>>

\* lines 85-96: one pass of the loop
BezierPass ==
    /\ bezPc = "loop"
    /\ bezIter < BezierIterations
    /\ bezIter' = bezIter + 1
    /\ LET t_mid == BezierMidpoint(bezLow, bezHigh)
           y_mid == evaluate_cubic_bezier(bezArgs.p0, bezArgs.cp1, bezArgs.cp2,
                                          bezArgs.p3, t_mid)[2]
       IN  IF Abs(y_mid - bezArgs.target_y) < bezArgs.tolerance
           THEN /\ bezPc' = "done"
                /\ bezResult' = t_mid
                /\ UNCHANGED <<bezLow, bezHigh, faceVars>>
           ELSE /\ bezPc' = "loop"
                /\ bezLow' = IF y_mid < bezArgs.target_y THEN t_mid ELSE bezLow
                /\ bezHigh' = IF y_mid < bezArgs.target_y THEN bezHigh ELSE t_mid
                /\ UNCHANGED bezResult
    /\ UNCHANGED <<bezArgs, sagVars, genVars, svgVars, dimVars, geoVars, roleVars, scnVars, shpVars, bndVars, rndVars, viewVars, faceVars>>

\* line 98: the return after the last pass
BezierExhausted ==
    /\ bezPc = "loop"
    /\ bezIter = BezierIterations
    /\ bezPc' = "done"
    /\ bezResult' = BezierMidpoint(bezLow, bezHigh)
    /\ UNCHANGED <<bezArgs, bezLow, bezHigh, bezIter, sagVars, genVars, svgVars, dimVars, geoVars, roleVars, scnVars, shpVars, bndVars, rndVars, viewVars, faceVars>>

NextBezier ==
    \/ \E curve \in BezierCurves, target_y \in BezierTargets, tolerance \in BezierTolerances :
          BezierCall(curve, target_y, tolerance)
    \/ BezierPass
    \/ BezierExhausted

SpecBezier == InitBezier /\ [][NextBezier]_vars /\ WF_vars(NextBezier)

-----------------------------------------------------------------------------
(* Specification of make_face: shapes are constructed and moved, and       *)
(* make_face is called once on one of them.                                *)

MaxVertices == 4

\* a list of n distinct points
FacePoints(n) == [i \in 1 .. n |-> <<i * LenScale, i * i * LenScale>>]

FaceShapes ==
    { Polygon_init(FacePoints(n), filled, "") : n \in 0 .. MaxVertices, filled \in BOOLEAN }
        \cup { Rectangle_init(4 * LenScale, 2 * LenScale), Text_init("a", 3 * LenScale, "Roboto") }

InitFace ==
    /\ FaceIdle
    /\ SagIdle
    /\ GenIdle
    /\ SvgIdle
    /\ DimIdle
    /\ GeoIdle
    /\ BezIdle
    /\ ViewIdle
    /\ RndIdle
    /\ BndIdle
    /\ ShpIdle
    /\ RoleIdle
    /\ ScnIdle

FaceConstruct(shape) ==
    /\ faceArg = 0
    /\ Len(faceHeap) < MaxObjects
    /\ faceHeap' = Append(faceHeap, shape)
    /\ UNCHANGED <<faceArg, faceResult, sagVars, genVars, svgVars, dimVars, geoVars, roleVars, scnVars, shpVars, bndVars, rndVars, viewVars, bezVars>>

FaceMove(self) ==
    /\ faceArg = 0
    /\ Len(faceHeap) < MaxObjects
    /\ faceHeap' = Move(faceHeap, self, ShapeLocation).heap
    /\ UNCHANGED <<faceArg, faceResult, sagVars, genVars, svgVars, dimVars, geoVars, roleVars, scnVars, shpVars, bndVars, rndVars, viewVars, bezVars>>

CallMakeFace(self) ==
    /\ faceArg = 0
    /\ faceArg' = self
    /\ LET result == make_face(faceHeap, self)
       IN  IF result.exc = "none"
           THEN /\ faceHeap' = result.val.heap
                /\ faceResult' = Value(result.val.ret)
           ELSE /\ faceHeap' = faceHeap
                /\ faceResult' = result
    /\ UNCHANGED <<sagVars, genVars, svgVars, dimVars, geoVars, roleVars, scnVars, shpVars, bndVars, rndVars, viewVars, bezVars>>

NextFace ==
    \/ \E shape \in FaceShapes : FaceConstruct(shape)
    \/ \E self \in DOMAIN faceHeap : FaceMove(self)
    \/ \E self \in DOMAIN faceHeap : CallMakeFace(self)

SpecFace == InitFace /\ [][NextFace]_vars

-----------------------------------------------------------------------------
(* Properties of the sagitta calculation (SpecSagitta) *)

\* C4, as claimed: for every radius > 0 and every chord width, the value
\* calculate_sagitta returns lies in [0, radius].
C4_SagittaWithinRadius ==
    (sagCalls >= 1 /\ sagRadius > 0) =>
        (0 <= sagResult /\ sagResult <= sagRadius)

\* C4, amended: for every radius > 0 the value returned is never negative,
\* and it is at most the radius whenever width^2 <= 8 * radius^2, which
\* covers every chord narrower than the diameter.
C4_SagittaWithinRadiusUpToLimit ==
    (sagCalls >= 1 /\ sagRadius > 0) =>
        /\ 0 <= sagResult
        /\ (sagWidth * sagWidth <= 8 * sagRadius * sagRadius) => sagResult <= sagRadius

\* a call on the parabolic branch whose result is within the radius
C4_Witness ==
    /\ sagCalls >= 1
    /\ sagRadius > 0
    /\ sagWidth >= 2 * sagRadius
    /\ sagWidth * sagWidth <= 8 * sagRadius * sagRadius
    /\ sagResult > 0
    /\ sagResult <= sagRadius

\* C5: for a fixed radius > 0 the sagitta is monotonically non-decreasing
\* in the chord width, w1 <= w2 implies sagitta(r, w1) <= sagitta(r, w2),
\* also across the switch from the exact formula to the approximation.
C5_SagittaMonotone ==
    (sagCalls = 2 /\ sagRadius > 0 /\ sagPrevWidth <= sagWidth) =>
        sagPrevResult <= sagResult

-----------------------------------------------------------------------------
(* Properties of the generator entry point (SpecGenerate) *)

\* C6: whatever the input text, generate_violin_neck returns a JSON object
\* with a 'success' field, and no exception escapes to the caller.
C6_AlwaysReturnsSuccessField ==
    genCalled =>
        /\ genResult.exc = "none"
        /\ "success" \in DOMAIN genResult.val

\* a call whose parameters raised inside validate_parameters, answered
C6_Witness ==
    /\ genCalled
    /\ genInput.wellformed
    /\ genInput.value.form = "null"
    /\ genResult.exc = "none"
    /\ genResult.val.success = FALSE

\* C7: every result is consistent: success = true implies errors is empty
\* and views is non-null; success = false implies views is null and errors
\* is non-empty.
C7_ResultConsistent ==
    (genCalled /\ genResult.exc = "none") =>
        LET r == genResult.val
        IN  /\ r.success = TRUE => (r.errors = << >> /\ r.views # "null")
            /\ r.success = FALSE => (r.views = "null" /\ r.errors # << >>)

\* a call rejected by validation, and (in another state) one that succeeded
C7_Witness ==
    /\ genCalled
    /\ genResult.exc = "none"
    /\ genInput.wellformed
    /\ genInput.value.form = "object"
    /\ genResult.val.success = FALSE
    /\ Len(genResult.val.errors) = 2
    /\ genResult.val.errors[1][2] = "must be at least"

-----------------------------------------------------------------------------
(* Properties of the SVG exporter (SpecSvg) *)

\* C8: after any sequence of add_layer and add_shape calls, the serialised
\* output holds no element for a shape whose layer has neither a fill
\* colour nor a stroke colour.
C8_InvisibleLayerShapesSkipped ==
    svgWritten =>
        \A i \in 1 .. Len(svgOutput) :
            LET layer == svgShapes[svgOutput[i].shape].layer
            IN  ~ ( /\ layer \in DOMAIN svgLayers
                    /\ svgLayers[layer].fill_color = NoColor
                    /\ svgLayers[layer].line_color = NoColor )

\* an output that left out a shape of an invisible layer and kept another
C8_Witness ==
    /\ svgWritten
    /\ Len(svgShapes) = 2
    /\ Len(svgOutput) = 1
    /\ \E i \in 1 .. 2 :
          /\ svgShapes[i].shape.kind # "Other"
          /\ svgShapes[i].layer \in DOMAIN svgLayers
          /\ svgLayers[svgShapes[i].layer].fill_color = NoColor
          /\ svgLayers[svgShapes[i].layer].line_color = NoColor

-----------------------------------------------------------------------------
(* Properties of the dimension builders (SpecDim) *)

\* C9: no dimension builder (arrows, vertical, horizontal, diagonal, angle)
\* raises for any input segments, zero-length segments and segments that
\* share no endpoint included; each returns a shape list.
C9_BuildersNeverRaise ==
    dimCall.builder # "none" => dimResult.exc = "none"

-----------------------------------------------------------------------------
(* Properties of the geometry solvers *)

\* C1: calculate_neck_geometry raises an error, instead of returning a
\* result, whenever the neck angle it computes lies outside the open
\* interval (0, 180) degrees: every result returned has its neck angle
\* inside the interval.
C1_NeckAngleOutOfRangeRaises ==
    (geoCall.solver = "calculate_neck_geometry" /\ geoResult.exc = "none")
        => (0 < geoResult.val.neck_angle /\ geoResult.val.neck_angle < 180)

\* C2: calculate_string_angles_guitar raises the impossible-geometry error
\* (ValueError) whenever |opposite / hypotenuse| > 1; it returns no result
\* then and does not clamp the ratio into [-1, 1].
C2_ImpossibleGeometryRaises ==
    ( /\ geoCall.solver = "calculate_string_angles_guitar"
      /\ ListIndex(geoCall.fret_positions, GetOr(geoCall.params, "fret_join", 12)).exc = "none"
      /\ ListIndex(geoCall.fret_positions, 12).exc = "none"
      /\ ListIndex(geoCall.fret_positions, 12).val # 0
      /\ GuitarHypotenuse(geoCall.params, geoCall.vsl, geoCall.fret_positions) # 0
      /\ Abs(GuitarOpposite(geoCall.params, geoCall.fret_positions,
                            geoCall.fb_thickness_at_join))
            > Abs(GuitarHypotenuse(geoCall.params, geoCall.vsl, geoCall.fret_positions)) )
        => geoResult = Raise("ValueError")

\* a call with a bridge too high for the string length left after the join
C2_Witness ==
    /\ geoCall.solver = "calculate_string_angles_guitar"
    /\ geoCall.vsl = 100 * LenScale
    /\ Len(geoCall.fret_positions) = 15
    /\ GetOr(geoCall.params, "fret_join", 12) = 12
    /\ Abs(GuitarOpposite(geoCall.params, geoCall.fret_positions,
                          geoCall.fb_thickness_at_join))
          > Abs(GuitarHypotenuse(geoCall.params, geoCall.vsl, geoCall.fret_positions))
    /\ geoResult = Raise("ValueError")

\* C3: for every parameter set that validate_parameters accepts, the
\* neck_stop solved by calculate_string_angles_violin satisfies
\* 0 < neck_stop < vsl.
C3_NeckStopWithinStringLength ==
    ( /\ geoCall.solver = "calculate_string_angles_violin"
      /\ geoCall.validated.exc = "none"
      /\ geoCall.validated.val.is_valid
      /\ geoResult.exc = "none" )
        => (0 < geoResult.val.neck_stop /\ geoResult.val.neck_stop < geoCall.vsl)

\* C10: when the determinant of the string line and the neck perpendicular
\* is within the zero tolerance, calculate_string_height_and_dimensions does
\* not raise and returns the fallback: intersection (0, 0) and
\* nut_to_perpendicular_distance 0.
C10_ParallelFallback ==
    ( /\ geoCall.solver = "calculate_string_height_and_dimensions"
      /\ LET overstand == GetOr(geoCall.params, "overstand", 0)
             string_dx == geoCall.bridge_top[1] - geoCall.nut_top[1]
             string_dy == geoCall.bridge_top[2] - geoCall.nut_top[2]
             neck_dx == geoCall.neck_end[1]
             neck_dy == geoCall.neck_end[2] - overstand
         IN  Abs(string_dx * neck_dx + string_dy * neck_dy) <= EPSILON )
        => ( /\ geoResult.exc = "none"
             /\ geoResult.val.nut_perpendicular_intersection_x = 0
             /\ geoResult.val.nut_perpendicular_intersection_y = 0
             /\ geoResult.val.nut_to_perpendicular_distance = 0 )

\* a string line parallel to the perpendicular of the neck line, neither of
\* them a point, and a nut away from the origin
C10_Witness ==
    /\ geoCall.solver = "calculate_string_height_and_dimensions"
    /\ geoCall.bridge_top # geoCall.nut_top
    /\ geoCall.neck_end # << 0, GetOr(geoCall.params, "overstand", 0) >>
    /\ geoCall.nut_top # << 0, 0 >>
    /\ Abs((geoCall.bridge_top[1] - geoCall.nut_top[1]) * geoCall.neck_end[1]
            + (geoCall.bridge_top[2] - geoCall.nut_top[2])
                * (geoCall.neck_end[2] - GetOr(geoCall.params, "overstand", 0)))
          <= EPSILON
    /\ geoResult.exc = "none"
    /\ geoResult.val.nut_to_perpendicular_distance = 0

-----------------------------------------------------------------------------
(* Properties of the parameter roles (SpecRoles) *)

BothStopsAsked == {"body_stop", "neck_stop"} \subseteq DOMAIN roleAnswers

\* C11, as claimed: in every instrument family exactly one of body_stop and
\* neck_stop is an input parameter and the other is derived.
C11_ExactlyOneStopIsInput ==
    BothStopsAsked =>
        /\ roleAnswers["body_stop"].is_input # roleAnswers["neck_stop"].is_input
        /\ roleAnswers["body_stop"].is_output # roleAnswers["neck_stop"].is_output

\* C11, amended: body_stop and neck_stop are never both inputs; in VIOLIN
\* and VIOL body_stop is the input and neck_stop is derived, and in
\* GUITAR_MANDOLIN both are derived and neither is an input.
C11_StopsNeverBothInput ==
    BothStopsAsked =>
        /\ ~(roleAnswers["body_stop"].is_input /\ roleAnswers["neck_stop"].is_input)
        /\ roleAnswers["neck_stop"].is_output /\ ~roleAnswers["neck_stop"].is_input
        /\ roleAnswers["body_stop"].is_input = (roleFamily \in {"VIOLIN", "VIOL"})
        /\ roleAnswers["body_stop"].is_output = (roleFamily = "GUITAR_MANDOLIN")

\* both stops asked of the guitar family: neither is an input
C11_Witness ==
    /\ BothStopsAsked
    /\ roleFamily = "GUITAR_MANDOLIN"
    /\ ~roleAnswers["body_stop"].is_input
    /\ ~roleAnswers["neck_stop"].is_input

-----------------------------------------------------------------------------
(* Properties of two scenes (SpecScenes) *)

\* C12: whatever the interleaving of add_layer, add_shape and write calls on
\* two distinct ExportSVG instances, what write returns for an instance is
\* what it returns when only that instance's calls are executed.
C12_ScenesShareNoState ==
    (scnWritten \in SceneIds) =>
        scnOutput = WriteElements(scnSolo[scnWritten].layers, scnSolo[scnWritten].shapes)

\* the first scene written with a shape of its own after the second scene
\* was given a layer and a shape
C12_Witness ==
    /\ scnWritten = 1
    /\ Len(scnOutput) = 1
    /\ Len(scnSolo[1].shapes) = 1
    /\ Len(scnSolo[2].shapes) = 1
    /\ "dimensions" \in DOMAIN scnSolo[2].layers
    /\ "dimensions" \notin DOMAIN scnSolo[1].layers

-----------------------------------------------------------------------------
(* Properties of shapes in a scene (SpecShapes) *)

\* C13: move and rotate never modify the shape they are called on, so every
\* shape in the scene is what it was when it was added, whatever move and
\* rotate calls were made on it since.
C13_AddedShapesUnchanged ==
    \A i \in DOMAIN shpScene : shpHeap[shpScene[i].shape] = shpAdded[i]

\* a shape added to the scene while at the origin and then moved: the moved
\* copy is a later object on the heap
C13_Witness ==
    /\ Len(shpScene) >= 1
    /\ shpAdded[1].x = 0
    /\ \E a \in DOMAIN shpHeap :
          /\ a > shpScene[1].shape
          /\ shpHeap[a].kind = shpAdded[1].kind
          /\ shpHeap[a].x = ShapeLocation[1]

-----------------------------------------------------------------------------
(* Properties of the bounds calculation (SpecBounds) *)

OneRectangle ==
    /\ bndCalled
    /\ Len(bndSelf.shapes) = 1
    /\ bndSelf.shapes[1].shape.kind = "Rectangle"

\* C14: for a scene of exactly one rectangle of width w and height h centred
\* at (cx, cy) the bounds are (cx - w/2 - margin, cy - h/2 - margin,
\* cx + w/2 + margin, cy + h/2 + margin), whatever layer the rectangle is on.
C14_RectangleBounds ==
    OneRectangle =>
        LET rect == bndSelf.shapes[1].shape
        IN  /\ bndResult.finite
            /\ bndResult.min_x = rect.x - Half(rect.width) - bndSelf.margin
            /\ bndResult.min_y = rect.y - Half(rect.height) - bndSelf.margin
            /\ bndResult.max_x = rect.x + Half(rect.width) + bndSelf.margin
            /\ bndResult.max_y = rect.y + Half(rect.height) + bndSelf.margin

\* a rectangle off the origin on a layer that write leaves out
C14_Witness ==
    /\ OneRectangle
    /\ LayerInvisible(bndSelf.layers, bndSelf.shapes[1].layer)
    /\ bndSelf.shapes[1].shape.width > 0
    /\ bndSelf.shapes[1].shape.x # 0
    /\ bndResult.max_x - bndResult.min_x = bndSelf.shapes[1].shape.width + 2 * bndSelf.margin

-----------------------------------------------------------------------------
(* Properties of the angle-dimension label (SpecDim) *)

AngleLabelComputed ==
    /\ dimCall.builder = "create_angle_dimension"
    /\ dimCall.label = << >>
    /\ dimResult.exc = "none"

\* the text of the label, the last shape of the list
AngleLabelText == dimResult.val[Len(dimResult.val)].shape.text

\* the unsigned angle between the rays from the junction to the two far
\* points, from their cross and dot products, in whole degrees
RayAngle ==
    LET ends == AngleJunction(dimCall.line1, dimCall.line2)
        ux == ends.dir1_point[1] - ends.junction[1]
        uy == ends.dir1_point[2] - ends.junction[2]
        vx == ends.dir2_point[1] - ends.junction[1]
        vy == ends.dir2_point[2] - ends.junction[2]
    IN  Atan2Deg(Abs(ux * vy - uy * vx), ux * vx + uy * vy)

\* both far points lie off the junction, so each ray has a direction
BothRaysProper ==
    LET ends == AngleJunction(dimCall.line1, dimCall.line2)
    IN  ends.dir1_point # ends.junction /\ ends.dir2_point # ends.junction

\* C15: with no label supplied the label of create_angle_dimension is the
\* unsigned minor angle between the two rays from the junction, within
\* [0, 180] degrees (here to the nearest degree), written with one decimal
\* place and the degree sign; rays along +X and +Y from a shared origin
\* give "90.0°".
C15_AngleLabelIsMinorAngle ==
    AngleLabelComputed =>
        /\ \E d \in 0 .. 180 :
              /\ AngleLabelText = ToString(d) \o ".0°"
              /\ BothRaysProper => Abs(d - RayAngle) <= 1
        /\ ( /\ dimCall.line1 = Edge_make_line(<<0, 0>>, <<10 * LenScale, 0>>)
             /\ dimCall.line2 = Edge_make_line(<<0, 0>>, <<0, 10 * LenScale>>) )
              => AngleLabelText = "90.0°"

\* the ray along +Y first and the ray along +X second: the signed difference
\* is -90 degrees and the label is the minor angle
C15_Witness ==
    /\ AngleLabelComputed
    /\ dimCall.line1 = Edge_make_line(<<0, 0>>, <<0, 10 * LenScale>>)
    /\ dimCall.line2 = Edge_make_line(<<0, 0>>, <<10 * LenScale, 0>>)
    /\ AngleLabelText = "90.0°"

-----------------------------------------------------------------------------
(* Properties of the dimension annotations (SpecRender) *)

\* C16: with show_measurements false the serialized drawing holds no text
\* of a shape that add_dimensions added: no measurement label is rendered.
C16_NoDimensionTextWhenHidden ==
    (rndCalled /\ ~rndShow /\ rndAdded.exc = "none") =>
        \A i \in DOMAIN rndOutput : rndOutput[i].tag # "text"

-----------------------------------------------------------------------------
(* Properties of the fret table view (SpecFretView) *)

\* the supplied no_frets when present and not null (an explicit 0
\* included), else 7 for VIOL, 20 for GUITAR_MANDOLIN and 0 otherwise
ResolvedFretCount ==
    IF "no_frets" \in DOMAIN viewParams /\ viewParams["no_frets"] # JNull
    THEN viewParams["no_frets"].num
    ELSE IF "instrument_family" \in DOMAIN viewParams
            /\ viewParams["instrument_family"] = JStr("VIOL") THEN 7
    ELSE IF "instrument_family" \in DOMAIN viewParams
            /\ viewParams["instrument_family"] = JStr("GUITAR_MANDOLIN") THEN 20
    ELSE 0

\* C17: generate_fret_positions_view reports available = false exactly when
\* the resolved fret count is 0, and otherwise available = true together
\* with the resolved count.
C17_AvailableIffFretCountNonZero ==
    viewCalled =>
        /\ viewResult.available = (ResolvedFretCount # 0)
        /\ viewResult.available => viewResult.no_frets = ResolvedFretCount

\* a viol with an explicit no_frets of 0: no table
C17_Witness ==
    /\ viewCalled
    /\ "no_frets" \in DOMAIN viewParams
    /\ viewParams["no_frets"] = JNum(0)
    /\ "instrument_family" \in DOMAIN viewParams
    /\ viewParams["instrument_family"] = JStr("VIOL")
    /\ ~viewResult.available

-----------------------------------------------------------------------------
(* Properties of validation before generation (SpecGenerate) *)

\* validate_parameters ran on the parsed parameters and returned
ValidationRan ==
    /\ genCalled
    /\ genInput.wellformed
    /\ genEnv.imports = "ok"
    /\ validate_parameters(genInput.value).exc = "none"

\* C18: geometry generation runs only after validate_parameters accepted the
\* parameters.  If validation reports an error the result holds no view,
\* fret table or derived value, its errors are exactly the validator's
\* messages, and nothing of what the geometry code would have come to shows;
\* a result that comes from the geometry code has accepted parameters.
C18_GeometryOnlyAfterValidation ==
    /\ (ValidationRan /\ ~validate_parameters(genInput.value).val.is_valid) =>
          /\ genResult.exc = "none"
          /\ DOMAIN genResult.val = {"success", "views", "errors"}
          /\ genResult.val.success = FALSE
          /\ genResult.val.views = "null"
          /\ genResult.val.errors = validate_parameters(genInput.value).val.errors
    /\ ( /\ genCalled
         /\ genResult.exc = "none"
         /\ \/ genResult.val.success
            \/ genResult.val.errors[1][1] = "Geometry generation failed" ) =>
          /\ ValidationRan
          /\ validate_parameters(genInput.value).val.is_valid

\* parameters out of range in a call whose view generation would have
\* raised: the errors are the validator's
C18_Witness ==
    /\ ValidationRan
    /\ ~validate_parameters(genInput.value).val.is_valid
    /\ genEnv.views = "ValueError"
    /\ genResult.exc = "none"
    /\ genResult.val.errors = validate_parameters(genInput.value).val.errors
    /\ Len(genResult.val.errors) >= 1

-----------------------------------------------------------------------------
(* Properties of the order of the serialised shapes (SpecSvg) *)

\* the shapes write emits: on a layer that is not invisible, and a path
\* shape or a Text
EmittedShapes ==
    { k \in 1 .. Len(svgShapes) :
        /\ ~LayerInvisible(svgLayers, svgShapes[k].layer)
        /\ svgShapes[k].shape.kind # "Other" }

\* the place of a layer among the keys of ExportSVG.layers, 0 if absent
LayerPlace(name) ==
    IF \E i \in 1 .. Len(svgLayerOrder) : svgLayerOrder[i] = name
    THEN CHOOSE i \in 1 .. Len(svgLayerOrder) : svgLayerOrder[i] = name
    ELSE 0

-----------------------------------------------------------------------------
(* Properties of the bounds of an arc (SpecBounds) *)

OneArc ==
    /\ bndCalled
    /\ Len(bndSelf.shapes) = 1
    /\ bndSelf.shapes[1].shape.kind = "Arc"

\* Arc.position_at: the whole degrees of an arc swept from its start angle
\* up to its end angle
SweptAngles(shape) == shape.start_angle .. shape.end_angle

Encloses(bounds, point) ==
    /\ bounds.min_x <= point[1]
    /\ point[1] <= bounds.max_x
    /\ bounds.min_y <= point[2]
    /\ point[2] <= bounds.max_y

\* C20: for every arc the computed bounds enclose every point of the arc
\* swept from its start angle to its end angle, spans that wrap past 360
\* degrees and spans of a full turn included.
C20_BoundsEncloseArc ==
    (OneArc /\ bndSelf.shapes[1].shape.start_angle <= bndSelf.shapes[1].shape.end_angle) =>
        /\ bndResult.finite
        /\ \A angle \in SweptAngles(bndSelf.shapes[1].shape) :
              Encloses(bndResult, ArcPosition(bndSelf.shapes[1].shape, angle))

-----------------------------------------------------------------------------
(* Properties of string_angle_to_fingerboard (SpecStringAngles) *)

\* atan((string height at the fingerboard end - string height at the nut)
\* / fingerboard length), in degrees
FingerboardAngleOf(params) ==
    Degrees(math_atan(GetOr(params, "string_height_eof", 0)
                          - GetOr(params, "string_height_nut", 0),
                      GetOr(params, "fingerboard_length", 0)))

\* C21: both string-angle solvers compute string_angle_to_fingerboard as
\* atan((string height at fingerboard end - string height at nut) /
\* fingerboard length); the fret-join solver uses no other numerator or
\* denominator than the body-stop solver.
C21_SameFingerboardAngle ==
    (geoCall.solver \in {"calculate_string_angles_violin", "calculate_string_angles_guitar"}
        /\ geoResult.exc = "none") =>
        geoResult.val.string_angle_to_fingerboard = FingerboardAngleOf(geoCall.params)

-----------------------------------------------------------------------------
(* Properties of the fingerboard thickness (SpecThickness) *)

ThicknessComputed == geoCall.solver = "calculate_fingerboard_thickness"

\* the key is supplied with a visible height of the permitted range [0, 100]
SuppliedHeight(key) ==
    /\ key \in DOMAIN geoCall.params
    /\ 0 <= geoCall.params[key]
    /\ geoCall.params[key] <= 100 * LenScale

\* C22: calculate_fingerboard_thickness returns fb_thickness_at_nut =
\* supplied fb_visible_height_at_nut + sagitta_at_nut, and likewise at the
\* join, for every supplied visible height in [0, 100]; a default takes the
\* place of a missing parameter only.
C22_ThicknessFromSuppliedHeight ==
    ThicknessComputed =>
        /\ SuppliedHeight("fb_visible_height_at_nut") =>
              geoResult.val.fb_thickness_at_nut
                  = geoCall.params["fb_visible_height_at_nut"] + geoResult.val.sagitta_at_nut
        /\ SuppliedHeight("fb_visible_height_at_join") =>
              geoResult.val.fb_thickness_at_join
                  = geoCall.params["fb_visible_height_at_join"] + geoResult.val.sagitta_at_join

-----------------------------------------------------------------------------
(* Properties of the fret table reads of the fret-join solver (SpecFretJoin) *)

\* the parameters were accepted and the join is one of the frets of the table
FretJoinWithinTable ==
    /\ geoCall.solver = "calculate_string_angles_guitar"
    /\ geoCall.validated.exc = "none"
    /\ geoCall.validated.val.is_valid
    /\ 1 <= geoCall.params["fret_join"]
    /\ geoCall.params["fret_join"] <= geoCall.params["no_frets"]
    /\ Len(geoCall.fret_positions) = geoCall.params["no_frets"] + 1

\* C23: given a fret table built for no_frets frets (nut at index 0, fret i
\* at index i) and a fret_join with 1 <= fret_join <= no_frets, both
\* accepted by validate_parameters, the fret-join solver reads only entries
\* that exist: it never fails with an IndexError.
C23_FretJoinReadsExistingEntries ==
    FretJoinWithinTable => geoResult.exc # "IndexError"

-----------------------------------------------------------------------------
(* Properties of the junction of the angle dimension (SpecDim) *)

AngleCalled ==
    /\ dimCall.builder = "create_angle_dimension"
    /\ dimResult.exc = "none"

\* the four endpoint pairs in the order they are tested, each with the
\* opposite endpoint of line1 and of line2
EndpointPairs ==
    << [near1 |-> dimCall.line1.p1, near2 |-> dimCall.line2.p1,
        far1 |-> dimCall.line1.p2, far2 |-> dimCall.line2.p2],
       [near1 |-> dimCall.line1.p1, near2 |-> dimCall.line2.p2,
        far1 |-> dimCall.line1.p2, far2 |-> dimCall.line2.p1],
       [near1 |-> dimCall.line1.p2, near2 |-> dimCall.line2.p1,
        far1 |-> dimCall.line1.p1, far2 |-> dimCall.line2.p2],
       [near1 |-> dimCall.line1.p2, near2 |-> dimCall.line2.p2,
        far1 |-> dimCall.line1.p1, far2 |-> dimCall.line2.p1] >>

MatchingPairs == { i \in 1 .. 4 : Near(EndpointPairs[i].near1, EndpointPairs[i].near2) }

\* the junction and the two far points the builder is to use
ExpectedJunction ==
    IF MatchingPairs = {}
    THEN [junction |-> dimCall.line1.p2, far1 |-> dimCall.line1.p1,
          far2 |-> dimCall.line2.p1]
    ELSE LET first == CHOOSE i \in MatchingPairs : \A j \in MatchingPairs : i <= j
         IN  [junction |-> EndpointPairs[first].near1, far1 |-> EndpointPairs[first].far1,
              far2 |-> EndpointPairs[first].far2]

\* the point is at the arc radius (15 mm) from the centre, up to rounding
OnAngleArc(centre, point) ==
    Abs((point[1] - centre[1]) * (point[1] - centre[1])
            + (point[2] - centre[2]) * (point[2] - centre[2])
            - 15 * LenScale * 15 * LenScale) <= 2 * 15 * LenScale

\* C24: the angle-dimension builder takes as junction the first endpoint
\* pair, in the order (line1.p1, line2.p1), (line1.p1, line2.p2),
\* (line1.p2, line2.p1), (line1.p2, line2.p2), whose distance is below the
\* tolerance, with the rays toward the opposite endpoint of each segment,
\* and junction = line1.p2 with rays toward line1.p1 and line2.p1 when no
\* pair matches: the extended lines run from that junction through those
\* endpoints, the arc is centred on it and a computed label is the angle
\* between those rays.
C24_FirstMatchingPairIsJunction ==
    AngleCalled =>
        LET expected == ExpectedJunction
            extended == ExtensionLine(expected.junction, expected.far1, 5 * LenScale)
                          \o ExtensionLine(expected.junction, expected.far2, 5 * LenScale)
            angle1 == math_atan2(expected.far1[2] - expected.junction[2],
                                 expected.far1[1] - expected.junction[1])
            angle2 == math_atan2(expected.far2[2] - expected.junction[2],
                                 expected.far2[1] - expected.junction[1])
        IN  /\ Len(dimResult.val) = Len(extended) + 12 + 1
            /\ SubSeq(dimResult.val, 1, Len(extended)) = extended
            /\ \A i \in Len(extended) + 1 .. Len(extended) + 12 :
                  /\ OnAngleArc(expected.junction, dimResult.val[i].shape.p1)
                  /\ OnAngleArc(expected.junction, dimResult.val[i].shape.p2)
            /\ dimCall.label = << >> =>
                  dimResult.val[Len(dimResult.val)].shape.text
                      = FormatAngle(AngleBetween(angle1, angle2))

\* line2 is line1 reversed: the pairs (line1.p1, line2.p2) and (line1.p2,
\* line2.p1) both match and the junction is line1.p1, of the earlier pair
C24_Witness ==
    /\ AngleCalled
    /\ dimCall.line1.p1 # dimCall.line1.p2
    /\ dimCall.line2.p1 = dimCall.line1.p2
    /\ dimCall.line2.p2 = dimCall.line1.p1
    /\ MatchingPairs = {2, 3}
    /\ dimResult.val[1].shape.p1 = dimCall.line1.p1
    /\ OnAngleArc(dimCall.line1.p1, dimResult.val[3].shape.p1)

-----------------------------------------------------------------------------
(* Properties of the vertical and the horizontal dimension (SpecDim) *)

VerticalCalled ==
    /\ dimCall.builder = "create_vertical_dimension"
    /\ dimResult.exc = "none"

HorizontalCalled ==
    /\ dimCall.builder = "create_horizontal_dimension"
    /\ dimResult.exc = "none"

\* the lines on the layer "extensions", in the order of the list
ExtensionLines ==
    LET IsExtensionLine(entry) == entry.layer = "extensions" /\ entry.shape.kind = "Edge"
    IN  SelectSeq(dimResult.val, IsExtensionLine)

\* the dimension line: the one shape on the layer "dimensions"
DimensionLine ==
    LET IsDimensionLine(entry) == entry.layer = "dimensions"
    IN  SelectSeq(dimResult.val, IsDimensionLine)[1].shape

\* the label: the last shape of the list
DimensionLabel == dimResult.val[Len(dimResult.val)].shape

\* C25: the vertical and the horizontal dimension builder always return two
\* extension lines that run from the ends of the feature line to the
\* dimension line, and a dimension line displaced from the feature line by
\* the perpendicular offset, for every value of their arguments, the
\* defaults included.
C25_ExtensionLinesAndOffsetLine ==
    /\ VerticalCalled =>
          /\ Len(ExtensionLines) = 2
          /\ ExtensionLines[1].shape.p1 = dimCall.line1.p1
          /\ ExtensionLines[2].shape.p1 = <<dimCall.line1.p1[1], dimCall.line1.p2[2]>>
          /\ DimensionLine.p1[1] = dimCall.line1.p1[1] + DIMENSION_OFFSET_VERTICAL
          /\ DimensionLine.p2[1] = dimCall.line1.p1[1] + DIMENSION_OFFSET_VERTICAL
          /\ \A i \in 1 .. 2 : ExtensionLines[i].shape.p2[1] >= DimensionLine.p1[1]
    /\ HorizontalCalled =>
          /\ Len(ExtensionLines) = 2
          /\ ExtensionLines[1].shape.p1 = dimCall.line1.p1
          /\ ExtensionLines[2].shape.p1 = <<dimCall.line1.p2[1], dimCall.line1.p1[2]>>
          /\ DimensionLine.p1[2] = dimCall.line1.p1[2] + DIMENSION_OFFSET_HORIZONTAL
          /\ DimensionLine.p2[2] = dimCall.line1.p1[2] + DIMENSION_OFFSET_HORIZONTAL
          /\ \A i \in 1 .. 2 : ExtensionLines[i].shape.p2[2] <= DimensionLine.p1[2]

\* C26: in the vertical and the horizontal dimension builder the label is
\* centred on the dimension line: its y is the midpoint of the y of the
\* line's two ends for the vertical dimension, its x the midpoint of their
\* x for the horizontal dimension.
C26_LabelAtMidpointOfDimensionLine ==
    /\ VerticalCalled =>
          DimensionLabel.p1[2] = QuoR(DimensionLine.p1[2] + DimensionLine.p2[2], 2)
    /\ HorizontalCalled =>
          DimensionLabel.p1[1] = QuoR(DimensionLine.p1[1] + DimensionLine.p2[1], 2)

-----------------------------------------------------------------------------
(* Properties of the label of the diagonal dimension (SpecDim) *)

\* a diagonal dimension of a feature line of non-zero length
DiagonalCalled ==
    /\ dimCall.builder = "create_diagonal_dimension"
    /\ dimCall.line1.p1 # dimCall.line1.p2
    /\ dimResult.exc = "none"

\* atan2(dy, dx) of the feature line, in degrees
RawLineAngle ==
    Atan2Deg(dimCall.line1.p2[2] - dimCall.line1.p1[2],
             dimCall.line1.p2[1] - dimCall.line1.p1[1])

\* C27: for every feature line of non-zero length the rotation of the label
\* of the diagonal dimension lies within [-90, 90] degrees and differs from
\* the atan2 angle of the line by 0 or by exactly 180 degrees: the label is
\* parallel to the dimension line and never upside down.
C27_LabelRotationUpright ==
    DiagonalCalled =>
        /\ DimensionLabel.kind = "Text"
        /\ -90 <= DimensionLabel.rotation
        /\ DimensionLabel.rotation <= 90
        /\ \/ DimensionLabel.rotation = RawLineAngle
           \/ Abs(DimensionLabel.rotation - RawLineAngle) = 180

\* a line running up and to the left, at 135 degrees: the label is turned
\* to -45 degrees
C27_Witness ==
    /\ DiagonalCalled
    /\ RawLineAngle = 135
    /\ DimensionLabel.rotation = -45

-----------------------------------------------------------------------------
(* Properties of find_bezier_t_for_y (SpecBezier) *)

\* C28: find_bezier_t_for_y terminates after at most 50 passes of the
\* bisection loop and returns a t within [0, 1], for any control points,
\* target y and tolerance, curves that are not monotonic and targets the
\* curve never reaches included.
C28_BisectionTerminatesInRange ==
    /\ [](bezIter <= BezierIterations)
    /\ [](bezPc = "done" => (0 <= bezResult /\ bezResult <= TScale))
    /\ (bezPc = "loop") ~> (bezPc = "done")

\* the rising and falling curve with a target above it: all 50 passes are
\* made and the t returned is in range
C28_Witness ==
    /\ bezPc = "done"
    /\ bezIter = BezierIterations
    /\ bezArgs.cp1[2] > bezArgs.p3[2]
    /\ bezArgs.cp2[2] < bezArgs.p0[2]
    /\ bezArgs.target_y = 100 * LenScale
    /\ 0 <= bezResult
    /\ bezResult <= TScale

-----------------------------------------------------------------------------
(* Properties of input and output roles (SpecRoles) *)

\* C29: for every registry parameter asked and every instrument family,
\* exactly one of is_input_in_mode(family) and is_output_in_mode(family) is
\* true: no parameter is both an input and an output, or neither.
C29_InputXorOutput ==
    \A key \in DOMAIN roleAnswers :
        roleAnswers[key].is_input # roleAnswers[key].is_output

\* a parameter of each role has been asked, the conditional one in the family
\* where its is_output_for entry is true
C29_Witness ==
    /\ {"vsl", "neck_angle", "body_stop"} \subseteq DOMAIN roleAnswers
    /\ roleFamily = "GUITAR_MANDOLIN"
    /\ roleAnswers["body_stop"].is_output
    /\ roleAnswers["vsl"].is_input
    /\ roleAnswers["neck_angle"].is_output

-----------------------------------------------------------------------------
(* Properties of make_face (SpecFace) *)

FaceCalled == faceArg # 0

\* C30: make_face applied to a polygon returns a new polygon with filled =
\* true and with the same vertex list and the same translation offset as the
\* input polygon, whatever the number of vertices; any shape that is not a
\* polygon is returned unchanged.
C30_FaceKeepsVerticesAndOffset ==
    FaceCalled =>
        IF faceHeap[faceArg].kind = "Polygon"
        THEN /\ faceResult.exc = "none"
             /\ faceResult.val # faceArg
             /\ faceHeap[faceResult.val].kind = "Polygon"
             /\ faceHeap[faceResult.val].filled = TRUE
             /\ faceHeap[faceResult.val].point_list
             /\ faceHeap[faceResult.val].vertices = faceHeap[faceArg].vertices
             /\ faceHeap[faceResult.val].x = faceHeap[faceArg].x
             /\ faceHeap[faceResult.val].y = faceHeap[faceArg].y
        ELSE faceResult = Value(faceArg)

=============================================================================
